---------------------------- MODULE Spec2Model ----------------------------
(***************************************************************************)
(* A model of cargo-contract's contract ABI transcoding                    *)
(* (src/src/cmd/extrinsics/codec.rs), of the environment compatibility     *)
(* check (src/crates/transcode/src/env_check.rs) and of the call command   *)
(* (src/crates/extrinsics/src/call.rs), and of the commands around them:   *)
(* contract info (src/crates/extrinsics/src/contract_info.rs), the         *)
(* metadata ContractBuilder (src/crates/metadata/src/lib.rs), new          *)
(* (src/src/cmd/new.rs), and upload and rpc                                *)
(* (src/crates/cargo-contract/src/cmd).                                    *)
(*                                                                         *)
(* Text is modelled as a sequence of one-character strings, so that        *)
(* parsing, formatting and name lookup are computed character by           *)
(* character.  Bytes are naturals below 256.  Integers wider than TLC's    *)
(* own are handled as decimal digit sequences (long division by 256).      *)
(***************************************************************************)
EXTENDS Integers, Sequences, FiniteSets, TLC

VARIABLES
    metadata,   \* Codec.metadata: the specs of the InkProject (its registry is TypeRegistry)
    call,       \* the Codec call in progress: operation, inputs and result
    envIn,      \* the environment as the chain and as the contract declare it
    envOut,     \* the result of compare_node_env_with_contract
    cmd,        \* the call command: builder options, CallExec, traffic to the node
    resolving,  \* a call of resolve_type_definition: registry, type id and result
    tasks,      \* the Codec calls that concurrent tasks have in progress
    info,       \* fetch_contract_info: what the chain stores and the ContractInfo made of it
    contract_builder,  \* a ContractBuilder, its last setter or build() and the outcome
    files,      \* the file system execute_new works on and the result of its last call
    upload,     \* a run of the upload command: options, traffic to the node, result
    rpc         \* a run of the rpc command: parameters, the request made, result

\* The state of the transcoding and call models, and that of the other commands.
transcoding == <<metadata, call, envIn, envOut, cmd, resolving, tasks>>
commands == <<info, contract_builder, files, upload, rpc>>

vars == <<metadata, call, envIn, envOut, cmd, resolving, tasks,
          info, contract_builder, files, upload, rpc>>

(***************************************************************************)
(* Bounds of the model.                                                    *)
(***************************************************************************)
\* declared messages in a descriptor
MaxMsgs == 2
\* declared constructors in a descriptor
MaxCtors == 2
\* declared events in a descriptor
MaxEvents == 2
\* textual arguments passed to one encode call
MaxArgs == 2
\* bytes passed to one decode call
MaxData == 2
\* contract calls one CallExec sends to the node
MaxRequests == 3
\* tasks sharing one Codec
MaxTasks == 2

(***************************************************************************)
(* Options and results.                                                    *)
(***************************************************************************)
None == [some |-> FALSE, id |-> 0]
Some(x) == [some |-> TRUE, id |-> x]

NoEvent == [name |-> <<>>, args |-> <<>>]

\* Result<_> of a Codec call; "panic" is a panic!/unimplemented! abort and
\* "overflow" a recursion that never returns.
Result(k, b, t, e) ==
    [kind |-> k, bytes |-> b, text |-> t, err |-> e,
     name |-> <<>>, candidates |-> <<>>, index |-> 0, event |-> NoEvent]

OkBytes(b) == Result("ok", b, <<>>, "")
OkText(t) == Result("ok", <<>>, t, "")
Err(e) == Result("err", <<>>, <<>>, e)
Panic == Result("panic", <<>>, <<>>, "")
Overflow == Result("overflow", <<>>, <<>>, "")

\* anyhow!("A contract call named '{}' was not found. Expected one of {:?}")
NotFound(n, cands) == [Err("MessageNotFound") EXCEPT !.name = n, !.candidates = cands]

\* anyhow!("Event variant {} not found in contract metadata")
EventNotFound(i) == [Err("EventNotFound") EXCEPT !.index = i]

OkEvent(ev) == [Result("ok", <<>>, <<>>, "") EXCEPT !.event = ev]

(***************************************************************************)
(* Text.                                                                   *)
(***************************************************************************)
Digits == <<"0", "1", "2", "3", "4", "5", "6", "7", "8", "9">>

IsDigit(c) == \E i \in 1..10 : Digits[i] = c

DigitVal(c) == (CHOOSE i \in 1..10 : Digits[i] = c) - 1

\* The ASCII letters in code order: upper case from code 65, lower case from 97.
Upper ==
    <<"A", "B", "C", "D", "E", "F", "G", "H", "I", "J", "K", "L", "M",
      "N", "O", "P", "Q", "R", "S", "T", "U", "V", "W", "X", "Y", "Z">>

Lower ==
    <<"a", "b", "c", "d", "e", "f", "g", "h", "i", "j", "k", "l", "m",
      "n", "o", "p", "q", "r", "s", "t", "u", "v", "w", "x", "y", "z">>

IndexOf(table, c) == CHOOSE i \in 1..Len(table) : table[i] = c

IsIn(table, c) == \E i \in 1..Len(table) : table[i] = c

\* The UTF-8 encoding of an ASCII character is its code (the characters of the
\* model: digits, letters, space, sign and underscore).
Utf8(c) ==
    CASE IsIn(Digits, c) -> 47 + IndexOf(Digits, c)
      [] IsIn(Upper, c) -> 64 + IndexOf(Upper, c)
      [] IsIn(Lower, c) -> 96 + IndexOf(Lower, c)
      [] c = " " -> 32
      [] c = "+" -> 43
      [] c = "-" -> 45
      [] c = "_" -> 95

\* str::contains: needle occurs in hay as a contiguous run of characters.
Contains(hay, needle) ==
    \E i \in 0..(Len(hay) - Len(needle)) :
        SubSeq(hay, i + 1, i + Len(needle)) = needle

RECURSIVE Concat(_)
Concat(ss) == IF ss = <<>> THEN <<>> ELSE Head(ss) \o Concat(Tail(ss))


(***************************************************************************)
(* Primitive values: <int>::from_str, bool::from_str and the SCALE         *)
(* encodings (scale::Encode) of the primitives.                            *)
(***************************************************************************)
Unsigned == {"U8", "U16", "U32", "U64", "U128"}
Signed == {"I8", "I16", "I32", "I64", "I128"}
Primitives == {"Bool", "Char", "Str"} \cup Unsigned \cup Signed

\* size_of the integer primitive, in bytes.
Width(prim) ==
    CASE prim \in {"U8", "I8"} -> 1
      [] prim \in {"U16", "I16"} -> 2
      [] prim \in {"U32", "I32"} -> 4
      [] prim \in {"U64", "I64"} -> 8
      [] prim \in {"U128", "I128"} -> 16

\* The sign and the digits that from_str reads: an optional '+', an optional
\* '-' for a signed type, then at least one decimal digit and nothing else.
ParseInt(arg, signed) ==
    LET neg == signed /\ arg # <<>> /\ Head(arg) = "-"
        digits == IF arg # <<>> /\ (Head(arg) = "+" \/ neg) THEN Tail(arg) ELSE arg
    IN  [ok |-> digits # <<>> /\ \A i \in 1..Len(digits) : IsDigit(digits[i]),
         neg |-> neg,
         digits |-> digits]

\* The value of digit j of a decimal digit string, 0 before its first digit.
DigitAt(digits, j) == IF j < 1 THEN 0 ELSE DigitVal(digits[j])

\* The remainder by 256 of the number written by the first i digits: the
\* remainder long division carries out of digit i. 10^8 is a multiple of 256,
\* so only the last eight of those digits weigh on it.
Carry(digits, i) ==
    (DigitAt(digits, i) + 10 * DigitAt(digits, i - 1)
       + 100 * DigitAt(digits, i - 2) + 1000 * DigitAt(digits, i - 3)
       + 10000 * DigitAt(digits, i - 4) + 100000 * DigitAt(digits, i - 5)
       + 1000000 * DigitAt(digits, i - 6) + 10000000 * DigitAt(digits, i - 7)) % 256

\* Long division of a decimal digit string by 256: the quotient's digits and
\* the final remainder.
DivStep(digits) ==
    [q |-> [i \in 1..Len(digits) |->
               Digits[((Carry(digits, i - 1) * 10 + DigitAt(digits, i)) \div 256) + 1]],
     r |-> Carry(digits, Len(digits))]

\* The n low-order bytes of the number, least significant first, and the
\* digits of what is left above them.
RECURSIVE LittleEndian(_, _)
LittleEndian(digits, n) ==
    IF n = 0
    THEN [bytes |-> <<>>, rest |-> digits]
    ELSE LET dm == DivStep(digits)
             more == LittleEndian(dm.q, n - 1)
         IN  [bytes |-> <<dm.r>> \o more.bytes, rest |-> more.rest]

IsZero(digits) == \A i \in 1..Len(digits) : digits[i] = "0"

\* Two's complement negation of a little-endian byte string, carry coming in.
RECURSIVE Negate(_, _)
Negate(bytes, carry) ==
    IF bytes = <<>>
    THEN <<>>
    ELSE LET v == (255 - Head(bytes)) + carry
         IN  <<v % 256>> \o Negate(Tail(bytes), v \div 256)

\* magnitude = 2^(8n-1), the one magnitude only a negative value may have.
IsMinMagnitude(bytes) ==
    /\ bytes[Len(bytes)] = 128
    /\ \A i \in 1..(Len(bytes) - 1) : bytes[i] = 0

\* uN::encode of the low bytes of the number whatever its size.
EncodeUnsignedWrapping(prim, arg) ==
    LET p == ParseInt(arg, FALSE)
        le == LittleEndian(p.digits, Width(prim))
    IN  IF ~p.ok THEN Err("ParseIntError")
        ELSE OkBytes(le.bytes)

\* uN::encode(&uN::from_str(arg)?)
EncodeUnsigned(prim, arg) ==
    LET p == ParseInt(arg, FALSE)
        le == LittleEndian(p.digits, Width(prim))
    IN  IF ~p.ok THEN Err("ParseIntError")
        ELSE IF ~IsZero(le.rest) THEN Err("ParseIntError")
        ELSE OkBytes(le.bytes)

\* iN::encode(&iN::from_str(arg)?)
EncodeSigned(prim, arg) ==
    LET p == ParseInt(arg, TRUE)
        le == LittleEndian(p.digits, Width(prim))
        top == le.bytes[Width(prim)]
    IN  IF ~p.ok THEN Err("ParseIntError")
        ELSE IF ~IsZero(le.rest) THEN Err("ParseIntError")
        ELSE IF ~p.neg
             THEN IF top < 128 THEN OkBytes(le.bytes) ELSE Err("ParseIntError")
             ELSE IF top < 128 \/ IsMinMagnitude(le.bytes)
                  THEN OkBytes(Negate(le.bytes, 1))
                  ELSE Err("ParseIntError")

\* bool::encode(&bool::from_str(arg)?)
EncodeBool(arg) ==
    IF arg = <<"t", "r", "u", "e">> THEN OkBytes(<<1>>)
    ELSE IF arg = <<"f", "a", "l", "s", "e">> THEN OkBytes(<<0>>)
    ELSE Err("ParseBoolError")

\* Compact<u32>::encode of a length: one, two or four bytes by magnitude, the
\* mode in the two low bits of the first byte.
CompactLen(n) ==
    IF n < 64 THEN <<n * 4>>
    ELSE IF n < 16384 THEN <<(n % 64) * 4 + 1, n \div 64>>
    ELSE IF n < 1073741824
         THEN <<(n % 64) * 4 + 2, (n \div 64) % 256, (n \div 16384) % 256,
                n \div 4194304>>
         ELSE <<3, n % 256, (n \div 256) % 256, (n \div 65536) % 256, n \div 16777216>>

\* str::encode(arg): the compact length of the UTF-8 bytes, then the bytes.
EncodeStr(arg) == OkBytes(CompactLen(Len(arg)) \o [i \in 1..Len(arg) |-> Utf8(arg[i])])

\* impl EncodeContractArg for TypeDefPrimitive
EncodePrimitive(prim, arg) ==
    CASE prim = "Bool" -> EncodeBool(arg)
      [] prim = "Char" -> Panic
      [] prim = "Str" -> EncodeStr(arg)
      [] prim \in Unsigned -> EncodeUnsigned(prim, arg)
      [] prim \in Signed -> EncodeSigned(prim, arg)

(***************************************************************************)
(* The type registry (scale_info::RegistryReadOnly) and its definitions.   *)
(***************************************************************************)
NoName == [named |-> FALSE, text |-> <<>>]
Named(t) == [named |-> TRUE, text |-> t]

Field(n, t) == [name |-> n, ty |-> t]

TypeDef(k, p, n, t, fs) == [kind |-> k, prim |-> p, len |-> n, param |-> t, fields |-> fs]

Primitive(p) == TypeDef("Primitive", p, 0, 0, <<>>)
Array(n, t) == TypeDef("Array", "", n, t, <<>>)
Sequence(t) == TypeDef("Sequence", "", 0, t, <<>>)
Composite(fs) == TypeDef("Composite", "", 0, 0, fs)
Variant(fs) == TypeDef("Variant", "", 0, 0, fs)
Tuple(fs) == TypeDef("Tuple", "", 0, 0, fs)

\* The registry of the modelled contracts: every shape of type definition,
\* among them a newtype (1), a byte array (4), composites the encoder does
\* not support (6, 7) and a composite that contains itself (13).
TypeRegistry ==
    0 :> Primitive("U32")
    @@ 1 :> Composite(<<Field(NoName, 0)>>)
    @@ 2 :> Primitive("Bool")
    @@ 3 :> Primitive("U8")
    @@ 4 :> Array(2, 3)
    @@ 5 :> Array(2, 0)
    @@ 6 :> Composite(<<Field(NoName, 0), Field(NoName, 2)>>)
    @@ 7 :> Composite(<<Field(Named(<<"x">>), 0)>>)
    @@ 8 :> Primitive("Str")
    @@ 9 :> Primitive("Char")
    @@ 10 :> Variant(<<Field(NoName, 0)>>)
    @@ 11 :> Sequence(3)
    @@ 12 :> Tuple(<<Field(NoName, 0), Field(NoName, 2)>>)
    @@ 13 :> Composite(<<Field(NoName, 13)>>)

\* fn resolve_type: the registered type, or "Failed to resolve type with id".
Resolves(registry, id) == id \in DOMAIN registry

(***************************************************************************)
(* hex::decode                                                             *)
(***************************************************************************)
IsHex(c) ==
    \/ IsDigit(c)
    \/ \E i \in 1..6 : Lower[i] = c \/ Upper[i] = c

HexVal(c) ==
    IF IsDigit(c) THEN DigitVal(c)
    ELSE 9 + (CHOOSE i \in 1..6 : Lower[i] = c \/ Upper[i] = c)

\* An even number of hexadecimal digits, two to a byte; anything else (an odd
\* length, a character that is no hexadecimal digit) is a FromHexError.
HexDecode(arg) ==
    IF Len(arg) % 2 # 0 THEN Err("FromHexError")
    ELSE IF \E i \in 1..Len(arg) : ~IsHex(arg[i]) THEN Err("FromHexError")
    ELSE OkBytes([i \in 1..(Len(arg) \div 2) |->
                    HexVal(arg[2 * i - 1]) * 16 + HexVal(arg[2 * i])])

(***************************************************************************)
(* impl EncodeContractArg for TypeDef and for TypeDefComposite.  The        *)
(* recursion through a composite's single field is unbounded in the code;  *)
(* depth counts the composites still to be entered before a type must have *)
(* been entered twice, from where the code recurses until the stack ends.  *)
(***************************************************************************)
RECURSIVE EncodeArg(_, _, _, _)
EncodeArg(registry, def, arg, depth) ==
    CASE def.kind = "Array" ->
            IF ~Resolves(registry, def.param) THEN Err("ResolveError")
            ELSE IF registry[def.param] = Primitive("U8") THEN HexDecode(arg)
            ELSE Err("Only byte (u8) arrays supported")
      [] def.kind = "Primitive" -> EncodePrimitive(def.prim, arg)
      [] def.kind = "Composite" ->
            IF Len(def.fields) # 1 THEN Panic
            ELSE IF def.fields[1].name.named THEN Panic
            ELSE IF ~Resolves(registry, def.fields[1].ty) THEN Err("ResolveError")
            ELSE IF depth = 0 THEN Overflow
            ELSE EncodeArg(registry, registry[def.fields[1].ty], arg, depth - 1)
      [] OTHER -> Panic

\* A chain of more composites than the registry holds repeats one of them.
StackDepth(registry) == Cardinality(DOMAIN registry)

(***************************************************************************)
(* impl DecodeToString for TypeDef and for TypeDefPrimitive.  The result    *)
(* and the caller's cursor (input: &mut &[u8]) after the call.             *)
(***************************************************************************)
Decoded(r, c) == [result |-> r, cursor |-> c]

\* bool::decode(&mut &input[..]): the byte is read through a fresh slice
\* reference made from the caller's, which is the one that advances.
DecodeBool(input) ==
    LET fresh == input
        res == IF fresh = <<>> THEN Err("Not enough data to fill buffer")
               ELSE IF Head(fresh) = 0 THEN OkText(<<"f", "a", "l", "s", "e">>)
               ELSE IF Head(fresh) = 1 THEN OkText(<<"t", "r", "u", "e">>)
               ELSE Err("Invalid boolean representation")
    IN  Decoded(res, input)

DecodePrimitive(prim, input) ==
    IF prim = "Bool" THEN DecodeBool(input) ELSE Decoded(Panic, input)

DecodeToString(def, input) ==
    IF def.kind = "Primitive" THEN DecodePrimitive(def.prim, input)
    ELSE Decoded(Panic, input)

(***************************************************************************)
(* The contract descriptor (ink_metadata::InkProject) and the Codec.       *)
(***************************************************************************)
Param(n, t) == [name |-> n, ty |-> t]

ConstructorSpec(n, sel, as) == [name |-> n, selector |-> sel, args |-> as]

MessageSpec(n, sel, as, m, ret) ==
    [name |-> n, selector |-> sel, args |-> as, mutates |-> m, return_type |-> ret]

EventSpec(n, as) == [name |-> n, args |-> as]

Names(specs) == [i \in 1..Len(specs) |-> specs[i].name]

\* .iter().find(|msg| msg.name().contains(&name.to_string())): the index of the
\* first spec whose name contains the requested one, 0 when there is none.
\* A name is one string, as msg.name.clone() and event_spec.name().to_string()
\* treat it, so that contains is the substring test of str.
FindSpec(specs, name) ==
    IF \E i \in 1..Len(specs) : Contains(specs[i].name, name)
    THEN CHOOSE i \in 1..Len(specs) :
            /\ Contains(specs[i].name, name)
            /\ \A j \in 1..(i - 1) : ~Contains(specs[j].name, name)
    ELSE 0

\* Codec::encode: the spec's arguments zipped with the given ones, each pair
\* encoded in turn until one does not encode, then selector ++ encodings.
Encode(registry, selector, spec_args, args) ==
    LET n == IF Len(spec_args) < Len(args) THEN Len(spec_args) ELSE Len(args)
        parts == [i \in 1..n |->
                    IF ~Resolves(registry, spec_args[i].ty) THEN Err("ResolveError")
                    ELSE EncodeArg(registry, registry[spec_args[i].ty], args[i],
                                   StackDepth(registry))]
        bad == {i \in 1..n : parts[i].kind # "ok"}
    IN  IF bad # {}
        THEN parts[CHOOSE i \in bad : \A j \in bad : i <= j]
        ELSE OkBytes(selector \o Concat([i \in 1..n |-> parts[i].bytes]))

\* Codec::encode_constructor
EncodeConstructor(md, name, args) ==
    LET i == FindSpec(md.constructors, name)
    IN  IF i = 0 THEN NotFound(name, Names(md.constructors))
        ELSE Encode(TypeRegistry, md.constructors[i].selector,
                    md.constructors[i].args, args)

\* Codec::encode_message, through Codec::find_message_spec
EncodeMessage(md, name, args) ==
    LET i == FindSpec(md.messages, name)
    IN  IF i = 0 THEN NotFound(name, Names(md.messages))
        ELSE Encode(TypeRegistry, md.messages[i].selector, md.messages[i].args, args)

\* decode_events taking the discriminant to count the events from 1.
DecodeEventsFromOne(md, data) ==
    IF data = <<>> THEN Err("Not enough data to fill buffer")
    ELSE LET variant_index == Head(data)
         IN  IF variant_index = 0 \/ variant_index > Len(md.events)
             THEN EventNotFound(variant_index)
             ELSE LET event_spec == md.events[variant_index]
                  IN  OkEvent([name |-> event_spec.name,
                               args |-> [i \in 1..Len(event_spec.args) |->
                                           [name |-> event_spec.args[i].name,
                                            value |-> <<"T", "O", "D", "O">>]]])

\* Codec::decode_events
DecodeEvents(md, data) ==
    IF data = <<>> THEN Err("Not enough data to fill buffer")
    ELSE LET variant_index == Head(data)
         IN  IF variant_index >= Len(md.events) THEN EventNotFound(variant_index)
             ELSE LET event_spec == md.events[variant_index + 1]
                  IN  OkEvent([name |-> event_spec.name,
                               args |-> [i \in 1..Len(event_spec.args) |->
                                           [name |-> event_spec.args[i].name,
                                            value |-> <<"T", "O", "D", "O">>]]])

\* Codec::decode_return: the result and the data left after it.
DecodeReturn(md, name, data) ==
    LET i == FindSpec(md.messages, name)
    IN  IF i = 0 THEN Decoded(NotFound(name, Names(md.messages)), data)
        ELSE IF md.messages[i].return_type.some
             THEN IF ~Resolves(TypeRegistry, md.messages[i].return_type.id)
                  THEN Decoded(Err("ResolveError"), data)
                  ELSE DecodeToString(TypeRegistry[md.messages[i].return_type.id], data)
             ELSE Decoded(OkText(<<>>), data)

(***************************************************************************)
(* The descriptors and the inputs the model draws from.                    *)
(***************************************************************************)
foo == <<"f", "o", "o">>
foobar == <<"f", "o", "o", "b", "a", "r">>
fo == <<"f", "o">>
get == <<"g", "e", "t">>
new == <<"n", "e", "w">>
new_default == <<"n", "e", "w", "_", "d", "e", "f", "a", "u", "l", "t">>
zap == <<"z", "a", "p">>

MessagePool ==
    <<MessageSpec(foo, <<222, 173, 190, 239>>, <<Param(<<"a">>, 3), Param(<<"b">>, 2)>>,
                  TRUE, Some(2)),
      MessageSpec(foobar, <<202, 254, 186, 190>>, <<Param(<<"x">>, 0)>>, TRUE, None),
      MessageSpec(get, <<37, 68, 74, 97>>, <<Param(<<"v">>, 1)>>, FALSE, Some(0))>>

ConstructorPool ==
    <<ConstructorSpec(new, <<155, 174, 157, 94>>, <<Param(<<"i">>, 2)>>),
      ConstructorSpec(new_default, <<97, 239, 126, 103>>, <<>>)>>

EventPool ==
    <<EventSpec(<<"T", "r", "a", "n", "s", "f", "e", "r">>,
                <<Param(<<"f", "r", "o", "m">>, 4), Param(<<"t", "o">>, 4),
                  Param(<<"v", "a", "l", "u", "e">>, 0)>>),
      EventSpec(<<"F", "l", "i", "p", "p", "e", "d">>, <<>>)>>

\* The lists of at most max distinct elements of pool, in every order.
Lists(pool, max) ==
    {[i \in DOMAIN f |-> pool[f[i]]] :
        f \in {g \in UNION {[1..n -> 1..Len(pool)] : n \in 0..max} :
                 \A i, j \in DOMAIN g : i # j => g[i] # g[j]}}

Descriptors ==
    {[constructors |-> cs, messages |-> ms, events |-> es] :
        cs \in Lists(ConstructorPool, MaxCtors),
        ms \in Lists(MessagePool, MaxMsgs),
        es \in Lists(EventPool, MaxEvents)}

\* All sequences over set of length at most max.
SeqsUpTo(set, max) == UNION {[1..n -> set] : n \in 0..max}

NamePool == {foo, foobar, fo, get, new, new_default, zap}

ArgPool == {<<"4", "2">>, <<"t", "r", "u", "e">>, <<"3", "0", "0">>}

BytePool == {0, 1, 2, 255}

\* Decimal texts at and just beyond the limits of the integer types.
LimitPool ==
    {<<"2", "5", "6">>,
     <<"-", "0">>,
     <<"0", "0", "2", "5", "5">>,
     <<"-", "1", "2", "9">>,
     <<"3", "2", "7", "6", "8">>,
     <<"-", "3", "2", "7", "6", "9">>,
     <<"4", "2", "9", "4", "9", "6", "7", "2", "9", "5">>,
     <<"4", "2", "9", "4", "9", "6", "7", "2", "9", "6">>,
     <<"-", "2", "1", "4", "7", "4", "8", "3", "6", "4", "8">>,
     <<"-", "2", "1", "4", "7", "4", "8", "3", "6", "4", "9">>,
     <<"1", "8", "4", "4", "6", "7", "4", "4", "0", "7", "3", "7", "0", "9", "5", "5", "1", "6", "1", "5">>,
     <<"1", "8", "4", "4", "6", "7", "4", "4", "0", "7", "3", "7", "0", "9", "5", "5", "1", "6", "1", "6">>,
     <<"-", "9", "2", "2", "3", "3", "7", "2", "0", "3", "6", "8", "5", "4", "7", "7", "5", "8", "0", "8">>,
     <<"-", "9", "2", "2", "3", "3", "7", "2", "0", "3", "6", "8", "5", "4", "7", "7", "5", "8", "0", "9">>,
     <<"3", "4", "0", "2", "8", "2", "3", "6", "6", "9", "2", "0", "9", "3", "8", "4", "6", "3", "4", "6", "3", "3", "7", "4", "6", "0", "7", "4", "3", "1", "7", "6", "8", "2", "1", "1", "4", "5", "5">>,
     <<"3", "4", "0", "2", "8", "2", "3", "6", "6", "9", "2", "0", "9", "3", "8", "4", "6", "3", "4", "6", "3", "3", "7", "4", "6", "0", "7", "4", "3", "1", "7", "6", "8", "2", "1", "1", "4", "5", "6">>,
     <<"-", "1", "7", "0", "1", "4", "1", "1", "8", "3", "4", "6", "0", "4", "6", "9", "2", "3", "1", "7", "3", "1", "6", "8", "7", "3", "0", "3", "7", "1", "5", "8", "8", "4", "1", "0", "5", "7", "2", "8">>,
     <<"-", "1", "7", "0", "1", "4", "1", "1", "8", "3", "4", "6", "0", "4", "6", "9", "2", "3", "1", "7", "3", "1", "6", "8", "7", "3", "0", "3", "7", "1", "5", "8", "8", "4", "1", "0", "5", "7", "2", "9">>}

\* Textual values of the primitives, in and out of range, and ill-formed ones.
ValuePool ==
    {<<"t", "r", "u", "e">>, <<"f", "a", "l", "s", "e">>, <<"0">>, <<"4", "2">>,
     <<"2", "5", "5">>, <<"1", "2", "8">>, <<"-", "1">>, <<"-", "1", "2", "8">>,
     <<"+", "7">>, <<"6", "5", "5", "3", "6">>, <<"a", "b", "c">>, <<>>}

\* The registered types DecodeToString is called on directly.
DecodeTypes == {0, 1, 2, 4}

(***************************************************************************)
(* The Codec calls.  A call is made on an idle Codec and holds its inputs  *)
(* and its result until the caller has taken it (Return).                  *)
(***************************************************************************)
NoResult == Result("none", <<>>, <<>>, "")

Call(op, name, args, data, prim, result, cursor, encoded) ==
    [op |-> op, name |-> name, args |-> args, data |-> data, prim |-> prim,
     result |-> result, cursor |-> cursor, encoded |-> encoded]

Idle == Call("none", <<>>, <<>>, <<>>, "", NoResult, <<>>, <<>>)

CallEncodeConstructor ==
    /\ call.op = "none"
    /\ \E name \in NamePool, args \in SeqsUpTo(ArgPool, MaxArgs) :
        call' = Call("encode_constructor", name, args, <<>>, "",
                     EncodeConstructor(metadata, name, args), <<>>, <<>>)
    /\ UNCHANGED <<metadata, envIn, envOut, cmd, resolving, tasks, commands>>

CallEncodeMessage ==
    /\ call.op = "none"
    /\ \E name \in NamePool, args \in SeqsUpTo(ArgPool, MaxArgs) :
        call' = Call("encode_message", name, args, <<>>, "",
                     EncodeMessage(metadata, name, args), <<>>, <<>>)
    /\ UNCHANGED <<metadata, envIn, envOut, cmd, resolving, tasks, commands>>

CallDecodeEvents ==
    /\ call.op = "none"
    /\ \E data \in SeqsUpTo(BytePool, MaxData) :
        call' = Call("decode_events", <<>>, <<>>, data, "",
                     DecodeEvents(metadata, data), <<>>, <<>>)
    /\ UNCHANGED <<metadata, envIn, envOut, cmd, resolving, tasks, commands>>

CallDecodeReturn ==
    /\ call.op = "none"
    /\ \E name \in NamePool, data \in SeqsUpTo(BytePool, MaxData) :
        LET d == DecodeReturn(metadata, name, data)
        IN  call' = Call("decode_return", name, <<>>, data, "", d.result, d.cursor, <<>>)
    /\ UNCHANGED <<metadata, envIn, envOut, cmd, resolving, tasks, commands>>

\* decode_to_string on a registered type, the caller holding the cursor.
CallDecodeToString ==
    /\ call.op = "none"
    /\ \E id \in DecodeTypes, data \in SeqsUpTo(BytePool, MaxData) :
        LET d == DecodeToString(TypeRegistry[id], data)
        IN  call' = Call("decode_to_string", <<>>, <<>>, data,
                         TypeRegistry[id].prim, d.result, d.cursor, <<>>)
    /\ UNCHANGED <<metadata, envIn, envOut, cmd, resolving, tasks, commands>>

\* encode_arg of a textual value as a primitive type, then decode_to_string of
\* the bytes it gave as the same type.
RoundTrip ==
    /\ call.op = "none"
    /\ \E prim \in Primitives, arg \in ValuePool :
        LET enc == EncodeArg(TypeRegistry, Primitive(prim), arg,
                             StackDepth(TypeRegistry))
            d == DecodeToString(Primitive(prim), enc.bytes)
        IN  IF enc.kind = "ok"
            THEN call' = Call("round_trip", <<>>, <<arg>>, enc.bytes, prim,
                              d.result, d.cursor, enc.bytes)
            ELSE call' = Call("encode_arg", <<>>, <<arg>>, <<>>, prim, enc, <<>>, <<>>)
    /\ UNCHANGED <<metadata, envIn, envOut, cmd, resolving, tasks, commands>>

\* The same on the texts at the limits of the integer types.
RoundTripLimits ==
    /\ call.op = "none"
    /\ \E prim \in Primitives, arg \in LimitPool :
        LET enc == EncodeArg(TypeRegistry, Primitive(prim), arg,
                             StackDepth(TypeRegistry))
            d == DecodeToString(Primitive(prim), enc.bytes)
        IN  IF enc.kind = "ok"
            THEN call' = Call("round_trip", <<>>, <<arg>>, enc.bytes, prim,
                              d.result, d.cursor, enc.bytes)
            ELSE call' = Call("encode_arg", <<>>, <<arg>>, <<>>, prim, enc, <<>>, <<>>)
    /\ UNCHANGED <<metadata, envIn, envOut, cmd, resolving, tasks, commands>>

\* The caller takes the result.
Return ==
    /\ call.op # "none"
    /\ call' = Idle
    /\ UNCHANGED <<metadata, envIn, envOut, cmd, resolving, tasks, commands>>

CodecNext ==
    \/ CallEncodeConstructor
    \/ CallEncodeMessage
    \/ CallDecodeEvents
    \/ CallDecodeReturn
    \/ CallDecodeToString
    \/ RoundTrip
    \/ Return

(***************************************************************************)
(* Calls on a message of one argument.  The descriptor declares the        *)
(* message get, whose argument and return value are of one registered      *)
(* type; the argument is encoded from a text, and the bytes of a           *)
(* successful encoding, less the selector, are handed to decode_return.    *)
(***************************************************************************)
ArgDescriptor(t) ==
    [constructors |-> <<>>,
     messages |-> <<MessageSpec(get, <<37, 68, 74, 97>>, <<Param(<<"v">>, t)>>,
                                FALSE, Some(t))>>,
     events |-> <<>>]

\* Hexadecimal texts, bare and 0x-prefixed, well-formed and not.
HexPool ==
    {<<"0", "1", "0", "2">>, <<"0", "x", "0", "1", "0", "2">>, <<"f", "F">>,
     <<"0", "x", "f", "F">>, <<"0", "1", "0">>, <<"0", "x">>}

TextPool == ValuePool \cup HexPool

\* encode_message("get", [arg])
EncodeOne ==
    /\ call.op = "none"
    /\ \E arg \in TextPool :
        call' = Call("encode_message", get, <<arg>>, <<>>, "",
                     EncodeMessage(metadata, get, <<arg>>), <<>>, <<>>)
    /\ UNCHANGED <<metadata, envIn, envOut, cmd, resolving, tasks, commands>>

\* decode_return("get", data), data being what follows the 4 selector bytes in
\* the call data just encoded.
DecodeBack ==
    /\ call.op = "encode_message"
    /\ call.result.kind = "ok"
    /\ LET data == SubSeq(call.result.bytes, 5, Len(call.result.bytes))
           d == DecodeReturn(metadata, get, data)
       IN  call' = Call("decode_return", get, call.args, data, "", d.result, d.cursor,
                        call.result.bytes)
    /\ UNCHANGED <<metadata, envIn, envOut, cmd, resolving, tasks, commands>>

ArgsNext == EncodeOne \/ DecodeBack \/ Return

\* Primitive values alone, the Codec's descriptor playing no part.
ValuesNext == RoundTrip \/ RoundTripLimits \/ Return

(***************************************************************************)
(* The environment check (env_check.rs).  A registered type of a          *)
(* PortableRegistry has a path, type parameters and a definition; field    *)
(* and path names are compared whole, and are strings here.                *)
(***************************************************************************)
PortableType(path, params, def) == [path |-> path, type_params |-> params, type_def |-> def]

\* A Result of the check's helpers: a definition, a verdict, or an anyhow error.
ROk(def) == [kind |-> "ok", def |-> def, val |-> TRUE, msg |-> ""]
RVal(b) == [kind |-> "ok", def |-> Primitive(""), val |-> b, msg |-> ""]
RErr(m) == [kind |-> "err", def |-> Primitive(""), val |-> FALSE, msg |-> m]
ROverflow == [kind |-> "overflow", def |-> Primitive(""), val |-> FALSE, msg |-> ""]

\* resolve_type_definition giving a wrapper's own definition when the type it
\* wraps is not registered.
RECURSIVE ResolveTypeDefinitionUnchecked(_, _, _)
ResolveTypeDefinitionUnchecked(registry, id, depth) ==
    IF id \notin DOMAIN registry THEN RErr("Type is not present in registry")
    ELSE LET tt == registry[id]
         IN  IF tt.type_params = <<>>
             THEN IF tt.type_def.kind = "Composite"
                  THEN IF Len(tt.type_def.fields) # 1
                       THEN RErr("Composite field has incorrect composite type format")
                       ELSE IF tt.type_def.fields[1].ty \notin DOMAIN registry
                       THEN ROk(tt.type_def)
                       ELSE IF depth = 0 THEN ROverflow
                       ELSE ResolveTypeDefinitionUnchecked(registry,
                                tt.type_def.fields[1].ty, depth - 1)
                  ELSE ROk(tt.type_def)
             ELSE IF ~tt.type_params[1].some
                  THEN RErr("concrete type is not present")
                  ELSE IF tt.type_params[1].id \notin DOMAIN registry
                  THEN ROk(tt.type_def)
                  ELSE IF depth = 0 THEN ROverflow
                  ELSE ResolveTypeDefinitionUnchecked(registry, tt.type_params[1].id,
                                                      depth - 1)

\* resolve_type_definition testing fields.len() > 1 only, a composite without
\* fields failing at fields.get(0) instead.
RECURSIVE ResolveTypeDefinitionFirstField(_, _, _)
ResolveTypeDefinitionFirstField(registry, id, depth) ==
    IF id \notin DOMAIN registry THEN RErr("Type is not present in registry")
    ELSE LET tt == registry[id]
         IN  IF tt.type_params = <<>>
             THEN IF tt.type_def.kind = "Composite"
                  THEN IF Len(tt.type_def.fields) > 1
                       THEN RErr("Composite field has incorrect composite type format")
                       ELSE IF tt.type_def.fields = <<>>
                       THEN RErr("Incorrect format of a field")
                       ELSE IF depth = 0 THEN ROverflow
                       ELSE ResolveTypeDefinitionFirstField(registry,
                                tt.type_def.fields[1].ty, depth - 1)
                  ELSE ROk(tt.type_def)
             ELSE IF ~tt.type_params[1].some
                  THEN RErr("concrete type is not present")
                  ELSE IF depth = 0 THEN ROverflow
                  ELSE ResolveTypeDefinitionFirstField(registry, tt.type_params[1].id,
                                                       depth - 1)

\* fn resolve_type_definition; depth as for EncodeArg.
RECURSIVE ResolveTypeDefinition(_, _, _)
ResolveTypeDefinition(registry, id, depth) ==
    IF id \notin DOMAIN registry THEN RErr("Type is not present in registry")
    ELSE LET tt == registry[id]
         IN  IF tt.type_params = <<>>
             THEN IF tt.type_def.kind = "Composite"
                  THEN IF Len(tt.type_def.fields) # 1
                       THEN RErr("Composite field has incorrect composite type format")
                       ELSE IF depth = 0 THEN ROverflow
                       ELSE ResolveTypeDefinition(registry, tt.type_def.fields[1].ty,
                                                  depth - 1)
                  ELSE ROk(tt.type_def)
             ELSE IF ~tt.type_params[1].some
                  THEN RErr("concrete type is not present")
                  ELSE IF depth = 0 THEN ROverflow
                  ELSE ResolveTypeDefinition(registry, tt.type_params[1].id, depth - 1)

Resolve(registry, id) == ResolveTypeDefinition(registry, id, StackDepth(registry))

EnvironmentNames == {"account_id", "balance", "hash", "timestamp", "block_number"}

\* fn compare_type
CompareType(type_name, type_def, contract, node_registry) ==
    IF type_name \notin EnvironmentNames
    THEN RErr("Trying to resolve unknown environment type")
    ELSE
    LET tt_def == Resolve(contract.registry, contract.environment[type_name])
        node_arr_type == Resolve(node_registry, type_def.param)
        contract_arr_type == Resolve(contract.registry, tt_def.def.param)
    IN  IF tt_def.kind # "ok" THEN tt_def
        ELSE IF type_def.kind = "Array"
             THEN IF node_arr_type.kind # "ok" THEN node_arr_type
                  ELSE IF tt_def.def.kind = "Array"
                       THEN IF type_def.len # tt_def.def.len
                            THEN RErr("Mismatch in array lengths")
                            ELSE IF contract_arr_type.kind # "ok" THEN contract_arr_type
                            ELSE RVal(contract_arr_type.def = node_arr_type.def)
                       ELSE RVal(type_def = tt_def.def)
             ELSE RVal(type_def = tt_def.def)

\* Result<(), EnvCheckError>
EnvOk == [kind |-> "Ok", field |-> "", msg |-> ""]
CheckFailed(f) == [kind |-> "CheckFailed", field |-> f, msg |-> ""]
\* impl From<anyhow::Error> for EnvCheckError
RegistryError(m) == [kind |-> "RegistryError", field |-> "", msg |-> m]
EnvOverflow == [kind |-> "overflow", field |-> "", msg |-> ""]

FromAnyhow(r) == IF r.kind = "overflow" THEN EnvOverflow ELSE RegistryError(r.msg)

EnvironmentPath == <<"pallet_contracts", "Environment">>

\* The loop of compare_node_env_with_contract from field i on.
RECURSIVE CompareFields(_, _, _, _)
CompareFields(env_fields, i, node_registry, contract) ==
    IF i > Len(env_fields) THEN EnvOk
    ELSE LET field == env_fields[i]
             field_def == Resolve(node_registry, field.ty)
             checked == CompareType(field.name.text, field_def.def, contract,
                                    node_registry)
         IN  IF ~field.name.named THEN RegistryError("Field does not have a name")
             ELSE IF field.name.text = "hasher"
                  THEN CompareFields(env_fields, i + 1, node_registry, contract)
             ELSE IF field_def.kind # "ok" THEN FromAnyhow(field_def)
             ELSE IF checked.kind # "ok" THEN FromAnyhow(checked)
             ELSE IF ~checked.val THEN CheckFailed(field.name.text)
             ELSE CompareFields(env_fields, i + 1, node_registry, contract)

\* fn compare_node_env_with_contract, with fn get_node_env_fields
CompareNodeEnvWithContract(node_registry, contract) ==
    LET found == {id \in DOMAIN node_registry :
                    node_registry[id].path = EnvironmentPath}
        env_type == node_registry[CHOOSE id \in found : \A j \in found : id <= j]
    IN  IF found = {}
        THEN RegistryError("The node does not contain Environment type")
        ELSE IF env_type.type_def.kind # "Composite"
             THEN RegistryError("Environment type definition is in the wrong format")
             ELSE CompareFields(env_type.type_def.fields, 1, node_registry, contract)

(***************************************************************************)
(* The registries of the check.  The chain's registry and the contract's   *)
(* number their types independently.                                       *)
(***************************************************************************)
Plain(def) == PortableType(<<>>, <<>>, def)

Newtype(name, inner) == PortableType(<<name>>, <<>>, Composite(<<Field(NoName, inner)>>))

\* struct EnvironmentType<T>(PhantomData<T>)
EnvironmentType(t) ==
    PortableType(<<"pallet_contracts", "EnvironmentType">>, <<Some(t)>>, Composite(<<>>))

\* The chain's types but its Environment: byte arrays of 32 and of 20 bytes,
\* the integers, the newtypes over them and EnvironmentType of each newtype;
\* from 19 on a sequence of u8, a sequence of u32 and an array of two arrays
\* of 16 u8, and EnvironmentType of each.
NodeTypes ==
    0 :> Plain(Primitive("U8"))
    @@ 1 :> Plain(Array(32, 0))
    @@ 2 :> Plain(Array(20, 0))
    @@ 3 :> Plain(Primitive("U128"))
    @@ 4 :> Plain(Primitive("U64"))
    @@ 5 :> Plain(Primitive("U32"))
    @@ 6 :> Newtype("AccountId32", 1)
    @@ 7 :> Newtype("AccountId20", 2)
    @@ 8 :> Newtype("Balance", 3)
    @@ 9 :> Newtype("Timestamp", 4)
    @@ 10 :> Newtype("BlockNumber", 5)
    @@ 11 :> PortableType(<<"Hasher">>, <<>>, Composite(<<>>))
    @@ 12 :> EnvironmentType(6)
    @@ 13 :> EnvironmentType(7)
    @@ 14 :> EnvironmentType(8)
    @@ 15 :> EnvironmentType(9)
    @@ 16 :> EnvironmentType(10)
    @@ 17 :> EnvironmentType(11)
    @@ 19 :> Plain(Sequence(0))
    @@ 20 :> Plain(Sequence(5))
    @@ 21 :> Plain(Array(16, 0))
    @@ 22 :> Plain(Array(2, 21))
    @@ 23 :> EnvironmentType(19)
    @@ 24 :> EnvironmentType(20)
    @@ 25 :> EnvironmentType(22)

\* The chain's registry, its Environment declaring the given fields.
NodeRegistry(fields) ==
    NodeTypes @@ 18 :> PortableType(EnvironmentPath, <<>>, Composite(fields))

\* The contract's registry: ink's AccountId and Hash are newtypes over byte
\* arrays, its Balance, Timestamp and BlockNumber bare integers; from 10 on
\* a sequence of u8, a sequence of u32 and an array of two arrays of 16 u8.
ContractTypes ==
    0 :> Plain(Primitive("U32"))
    @@ 1 :> Plain(Primitive("U64"))
    @@ 2 :> Plain(Primitive("U128"))
    @@ 3 :> Plain(Primitive("U8"))
    @@ 4 :> Plain(Array(20, 3))
    @@ 5 :> Plain(Array(32, 3))
    @@ 6 :> Newtype("AccountId", 5)
    @@ 7 :> Newtype("AccountId", 4)
    @@ 8 :> Newtype("Hash", 5)
    @@ 9 :> Newtype("Hash", 4)
    @@ 10 :> Plain(Sequence(3))
    @@ 11 :> Plain(Sequence(0))
    @@ 12 :> Plain(Array(16, 3))
    @@ 13 :> Plain(Array(2, 12))

\* What a field may be declared as: 32 or 20 bytes, or an integer width.
Shapes == {"bytes32", "bytes20", "u128", "u64", "u32"}

\* The chain's declaration of a field of the shape, as a type id of NodeTypes.
NodeShape(shape) ==
    CASE shape = "bytes32" -> 12
      [] shape = "bytes20" -> 13
      [] shape = "u128" -> 14
      [] shape = "u64" -> 15
      [] shape = "u32" -> 16
      [] shape = "vec8" -> 23
      [] shape = "vec32" -> 24
      [] shape = "nested" -> 25

\* The contract's declaration of a field of the shape, in ContractTypes.
ContractShape(name, shape) ==
    CASE shape = "bytes32" -> IF name = "hash" THEN 8 ELSE 6
      [] shape = "bytes20" -> IF name = "hash" THEN 9 ELSE 7
      [] shape = "u128" -> 2
      [] shape = "u64" -> 1
      [] shape = "u32" -> 0
      [] shape = "vec8" -> 10
      [] shape = "vec32" -> 11
      [] shape = "nested" -> 13

\* The shapes the model declares each field with: the usual one first.
ShapeChoices ==
    [account_id |-> <<"bytes32", "bytes20">>,
     balance |-> <<"u128", "u64">>,
     hash |-> <<"bytes32", "bytes20">>,
     timestamp |-> <<"u64", "u32">>,
     block_number |-> <<"u32", "u64">>]

ShapeSets == [n \in EnvironmentNames |-> {ShapeChoices[n][i] : i \in 1..2}]

Declarations == {d \in [EnvironmentNames -> Shapes] : \A n \in EnvironmentNames : d[n] \in ShapeSets[n]}

\* The declarations of a custom environment: its Hash and its AccountId may
\* be a sequence or an array of arrays as well.
CustomShapes == Shapes \cup {"vec8", "vec32", "nested"}

CustomChoices ==
    [account_id |-> {"bytes32", "vec8", "nested"},
     balance |-> {"u128"},
     hash |-> {"bytes32", "vec8", "vec32", "nested"},
     timestamp |-> {"u64", "u32"},
     block_number |-> {"u32"}]

CustomDeclarations == {d \in [EnvironmentNames -> CustomShapes] : \A n \in EnvironmentNames : d[n] \in CustomChoices[n]}

\* pallet_contracts::Environment: the five fields and the hasher, in order.
NodeFields(d) ==
    <<Field(Named("account_id"), NodeShape(d["account_id"])),
      Field(Named("balance"), NodeShape(d["balance"])),
      Field(Named("hash"), NodeShape(d["hash"])),
      Field(Named("hasher"), 17),
      Field(Named("timestamp"), NodeShape(d["timestamp"])),
      Field(Named("block_number"), NodeShape(d["block_number"]))>>

\* spec().environment() of the InkProject: the type id of each field.
ContractEnvironment(d) == [n \in EnvironmentNames |-> ContractShape(n, d[n])]

\* The InkProject as the check reads it: spec().environment() and registry().
Contract(environment) == [environment |-> environment, registry |-> ContractTypes]

NoEnvInput == [node |-> <<>>, contract |-> <<>>]
NoEnvResult == [kind |-> "none", field |-> "", msg |-> ""]

\* compare_node_env_with_contract(node_registry, contract_metadata)
CheckEnv ==
    /\ envOut.kind = "none"
    /\ envOut' = CompareNodeEnvWithContract(NodeRegistry(envIn.node), Contract(envIn.contract))
    /\ UNCHANGED <<metadata, call, envIn, cmd, resolving, tasks, commands>>

\* The result is dropped, the inputs are checked again.
EnvReturn ==
    /\ envOut.kind # "none"
    /\ envOut' = NoEnvResult
    /\ UNCHANGED <<metadata, call, envIn, cmd, resolving, tasks, commands>>

EnvNext == CheckEnv \/ EnvReturn

(***************************************************************************)
(* Calls of resolve_type_definition.  The registries hold the type ids     *)
(* below MaxTypes, each registered as one of the shapes the function tells *)
(* apart; a field or a type parameter may name any of them or the id       *)
(* MaxTypes, which no registry holds.                                      *)
(***************************************************************************)
\* registered types in a registry that resolve_type_definition is called on
MaxTypes == 3

TypeIds == 0..(MaxTypes - 1)

Generic(params) == PortableType(<<>>, params, Composite(<<>>))

TypeChoices ==
    {Plain(Primitive("U64")), Plain(Array(32, 0)), Plain(Composite(<<>>)),
     Plain(Composite(<<Field(NoName, 0), Field(NoName, 0)>>)),
     Generic(<<None>>)}
    \cup {Plain(Composite(<<Field(NoName, j)>>)) : j \in 0..MaxTypes}
    \cup {Plain(Composite(<<Field(Named(<<"i", "n", "n", "e", "r">>), j)>>)) : j \in 0..MaxTypes}
    \cup {Generic(<<Some(j)>>) : j \in 0..MaxTypes}

Registries == [TypeIds -> TypeChoices]

RNone == [kind |-> "none", def |-> Primitive(""), val |-> FALSE, msg |-> ""]

\* resolve_type_definition(registry, id)
ResolveCall ==
    /\ resolving.result = RNone
    /\ resolving' = [resolving EXCEPT !.result = Resolve(resolving.registry, resolving.id)]
    /\ UNCHANGED <<metadata, call, envIn, envOut, cmd, tasks, commands>>

\* The caller takes the result; the same call may be made again.
ResolveReturn ==
    /\ resolving.result # RNone
    /\ resolving' = [resolving EXCEPT !.result = RNone]
    /\ UNCHANGED <<metadata, call, envIn, envOut, cmd, tasks, commands>>

ResolveNext == ResolveCall \/ ResolveReturn

(***************************************************************************)
(* The call command (call.rs): CallCommandBuilder, CallExec and the        *)
(* contract calls that reach the node, in the order they are sent.         *)
(***************************************************************************)
Weight(ref_time, proof_size) == [ref_time |-> ref_time, proof_size |-> proof_size]

NoWeight == [some |-> FALSE, weight |-> Weight(0, 0)]
SomeWeight(w) == [some |-> TRUE, weight |-> w]

\* The contract the command is run on: every message of the pool.
CallDescriptor ==
    [constructors |-> ConstructorPool, messages |-> MessagePool, events |-> EventPool]

CallMessages == {foo, foobar, get, zap}

GasPool == {None, Some(5)}
ProofPool == {None, Some(7)}

\* gas_required as a dry-run reports it.
RequiredPool == {Weight(3, 4), Weight(9, 2)}

\* No ContractExecResult was received yet.
NoAnswer == [status |-> "none", required |-> Weight(0, 0)]

\* CallCommandBuilder::new()
NewBuilder ==
    [pc |-> "builder",
     message_set |-> FALSE, message |-> <<>>,
     opts_set |-> FALSE, balances_ok |-> TRUE,
     contract_set |-> FALSE,
     gas_limit |-> None, proof_size |-> None,
     env_check |-> "none",
     sent |-> <<>>,
     outcome |-> "none",
     weight |-> NoWeight,
     call_result |-> NoAnswer]

\* CallCommandBuilder::message, callable while the message is Missing
SetMessage ==
    /\ cmd.pc = "builder" /\ ~cmd.message_set
    /\ \E m \in CallMessages : cmd' = [cmd EXCEPT !.message_set = TRUE, !.message = m]
    /\ UNCHANGED <<metadata, call, envIn, envOut, resolving, tasks, commands>>

\* CallCommandBuilder::extrinsic_opts, callable while the options are Missing;
\* the options hold the balances that the calls parse from them later.
SetExtrinsicOpts ==
    /\ cmd.pc = "builder" /\ ~cmd.opts_set
    /\ \E ok \in BOOLEAN : cmd' = [cmd EXCEPT !.opts_set = TRUE, !.balances_ok = ok]
    /\ UNCHANGED <<metadata, call, envIn, envOut, resolving, tasks, commands>>

\* CallCommandBuilder::contract
SetContract ==
    /\ cmd.pc = "builder" /\ ~cmd.contract_set
    /\ cmd' = [cmd EXCEPT !.contract_set = TRUE]
    /\ UNCHANGED <<metadata, call, envIn, envOut, resolving, tasks, commands>>

\* CallCommandBuilder::gas_limit
SetGasLimit ==
    /\ cmd.pc = "builder"
    /\ \E g \in GasPool : g # cmd.gas_limit /\ cmd' = [cmd EXCEPT !.gas_limit = g]
    /\ UNCHANGED <<metadata, call, envIn, envOut, resolving, tasks, commands>>

\* CallCommandBuilder::proof_size
SetProofSize ==
    /\ cmd.pc = "builder"
    /\ \E p \in ProofPool : p # cmd.proof_size /\ cmd' = [cmd EXCEPT !.proof_size = p]
    /\ UNCHANGED <<metadata, call, envIn, envOut, resolving, tasks, commands>>

\* The fallible steps of CallCommandBuilder::done, in order.
DoneSteps ==
    <<"contract_artifacts", "contract_transcoder", "encode", "signer", "from_url",
      "from_rpc_client", "check_env_types", "token_metadata", "contract">>

StepIndex(step) == CHOOSE i \in 1..Len(DoneSteps) : DoneSteps[i] = step

\* done() going on to build the CallExec whatever check_env_types returned.
DoneUnchecked(c, failed) ==
    LET env == StepIndex("check_env_types")
    IN  [c EXCEPT
            !.pc = IF failed = 0 \/ failed = env THEN "exec" ELSE "failed",
            !.env_check = IF failed = 0 \/ failed > env THEN "ok"
                          ELSE IF failed = env THEN "err"
                          ELSE "none"]

\* The builder after done() in which step number failed is the first to fail
\* (0: none does): either the CallExec or the error, and how far done() got.
DoneWith(c, failed) ==
    LET env == StepIndex("check_env_types")
    IN  [c EXCEPT
            !.pc = IF failed = 0 THEN "exec" ELSE "failed",
            !.env_check = IF failed = 0 \/ failed > env THEN "ok"
                          ELSE IF failed = env THEN "err"
                          ELSE "none"]

\* The steps that can fail in done() on this builder: encoding always fails
\* when no message has the name, the last step fails exactly when no contract
\* was set, and the others fail as the files and the node will have it.
MayFail(c) ==
    LET known == \E i \in 1..Len(metadata.messages) : metadata.messages[i].name = c.message
        free == {i \in 1..Len(DoneSteps) : DoneSteps[i] # "contract"}
    IN  IF ~known THEN {i \in free : i <= StepIndex("encode")}
        ELSE IF ~c.contract_set THEN free \cup {StepIndex("contract")}
        ELSE free \cup {0}

\* CallCommandBuilder::done, callable once message and options are set
Done ==
    /\ cmd.pc = "builder" /\ cmd.message_set /\ cmd.opts_set
    /\ \E failed \in MayFail(cmd) : cmd' = DoneWith(cmd, failed)
    /\ UNCHANGED <<metadata, call, envIn, envOut, resolving, tasks, commands>>

\* What the node answers to a dry-run: no answer (an RPC error), or a
\* ContractExecResult whose result is Ok or Err, with the gas it required.
DryRunAnswers ==
    {[status |-> st, required |-> w] : st \in {"rpc_error", "ok", "reverted"},
                                       w \in RequiredPool}

\* CallExec::call_dry_run: the calls sent to the node and what came back.  The
\* balances are parsed from the options first, and nothing is sent if they fail.
CallDryRun(c, answer) ==
    IF ~c.balances_ok
    THEN [sent |-> <<>>, status |-> "err", required |-> Weight(0, 0)]
    ELSE [sent |-> <<"state_call">>, status |-> answer.status,
          required |-> answer.required]

\* The ContractExecResult the CallExec received last: the node's answer if a
\* call was sent to it.
Received(c, sent, answer) ==
    IF sent = <<>> THEN c.call_result
    ELSE [status |-> answer.status, required |-> answer.required]

\* estimate_gas returning the dry-run's gas_required whatever its result.
EstimateGasUnchecked(c, answer) ==
    IF c.gas_limit.some /\ c.proof_size.some
    THEN [sent |-> <<>>, ok |-> TRUE, weight |-> Weight(c.gas_limit.id, c.proof_size.id)]
    ELSE LET call_result == CallDryRun(c, answer)
         IN  [sent |-> call_result.sent, ok |-> TRUE,
              weight |-> Weight(IF c.gas_limit.some THEN c.gas_limit.id
                                ELSE call_result.required.ref_time,
                                IF c.proof_size.some THEN c.proof_size.id
                                ELSE call_result.required.proof_size)]

\* CallExec::estimate_gas
EstimateGas(c, answer) ==
    IF c.gas_limit.some /\ c.proof_size.some
    THEN [sent |-> <<>>, ok |-> TRUE, weight |-> Weight(c.gas_limit.id, c.proof_size.id)]
    ELSE LET call_result == CallDryRun(c, answer)
         IN  IF call_result.status = "ok"
             THEN [sent |-> call_result.sent, ok |-> TRUE,
                   weight |-> Weight(IF c.gas_limit.some THEN c.gas_limit.id
                                     ELSE call_result.required.ref_time,
                                     IF c.proof_size.some THEN c.proof_size.id
                                     ELSE call_result.required.proof_size)]
             ELSE [sent |-> call_result.sent, ok |-> FALSE, weight |-> Weight(0, 0)]

\* The mutates flag of the message the CallExec was built for.
Mutates(c) ==
    LET i == CHOOSE j \in 1..Len(metadata.messages) : metadata.messages[j].name = c.message
    IN  metadata.messages[i].mutates

\* call(gas_limit) not looking at the mutates flag of the message.
CallWithUnchecked(c, gas_limit, answer, submitted) ==
    LET est == IF gas_limit.some
               THEN [sent |-> <<>>, ok |-> TRUE, weight |-> gas_limit.weight]
               ELSE EstimateGas(c, answer)
    IN  IF ~est.ok
        THEN [c EXCEPT !.outcome = "estimate_failed", !.weight = NoWeight,
                       !.sent = c.sent \o est.sent,
                       !.call_result = Received(c, est.sent, answer)]
        ELSE IF ~c.balances_ok
             THEN [c EXCEPT !.outcome = "balance_error", !.weight = NoWeight,
                            !.sent = c.sent \o est.sent,
                            !.call_result = Received(c, est.sent, answer)]
        ELSE [c EXCEPT !.outcome = submitted, !.weight = SomeWeight(est.weight),
                       !.sent = c.sent \o est.sent \o <<"submit_extrinsic">>,
                       !.call_result = Received(c, est.sent, answer)]

\* CallExec::call(gas_limit): the CallExec after the call, its outcome, the
\* weight submitted and the calls sent to the node added to sent.
CallWith(c, gas_limit, answer, submitted) ==
    LET est == IF gas_limit.some
               THEN [sent |-> <<>>, ok |-> TRUE, weight |-> gas_limit.weight]
               ELSE EstimateGas(c, answer)
    IN  IF ~Mutates(c) THEN [c EXCEPT !.outcome = "immutable", !.weight = NoWeight]
        ELSE IF ~est.ok
             THEN [c EXCEPT !.outcome = "estimate_failed", !.weight = NoWeight,
                            !.sent = c.sent \o est.sent,
                            !.call_result = Received(c, est.sent, answer)]
        ELSE IF ~c.balances_ok
             THEN [c EXCEPT !.outcome = "balance_error", !.weight = NoWeight,
                            !.sent = c.sent \o est.sent,
                            !.call_result = Received(c, est.sent, answer)]
        ELSE [c EXCEPT !.outcome = submitted, !.weight = SomeWeight(est.weight),
                       !.sent = c.sent \o est.sent \o <<"submit_extrinsic">>,
                       !.call_result = Received(c, est.sent, answer)]

\* CallExec::call_dry_run, called by the command for a dry-run
DryRun ==
    /\ cmd.pc = "exec"
    /\ \E answer \in DryRunAnswers :
        LET r == CallDryRun(cmd, answer)
        IN  /\ Len(cmd.sent) + Len(r.sent) <= MaxRequests
            /\ cmd' = [cmd EXCEPT !.sent = cmd.sent \o r.sent,
                                  !.outcome = "dry_run_" \o r.status,
                                  !.weight = NoWeight,
                                  !.call_result = Received(cmd, r.sent, answer)]
    /\ UNCHANGED <<metadata, call, envIn, envOut, resolving, tasks, commands>>

\* CallExec::estimate_gas, called by the command before it asks the user
\* whether to submit.
Estimate ==
    /\ cmd.pc = "exec"
    /\ \E answer \in DryRunAnswers :
        LET est == EstimateGas(cmd, answer)
        IN  /\ Len(cmd.sent) + Len(est.sent) <= MaxRequests
            /\ cmd' = [cmd EXCEPT !.sent = cmd.sent \o est.sent,
                                  !.outcome = IF est.ok THEN "estimated"
                                              ELSE "not_estimated",
                                  !.weight = IF est.ok THEN SomeWeight(est.weight)
                                             ELSE NoWeight,
                                  !.call_result = Received(cmd, est.sent, answer)]
    /\ UNCHANGED <<metadata, call, envIn, envOut, resolving, tasks, commands>>

\* CallExec::call; the submission succeeds, fails, or its events do not decode.
Execute ==
    /\ cmd.pc = "exec"
    /\ \E gas_limit \in {NoWeight, SomeWeight(Weight(5, 7))},
          answer \in DryRunAnswers,
          submitted \in {"events", "submit_error", "events_error"} :
        /\ Len(CallWith(cmd, gas_limit, answer, submitted).sent) <= MaxRequests
        /\ cmd' = CallWith(cmd, gas_limit, answer, submitted)
    /\ UNCHANGED <<metadata, call, envIn, envOut, resolving, tasks, commands>>

CallNext ==
    \/ SetMessage
    \/ SetExtrinsicOpts
    \/ SetContract
    \/ SetGasLimit
    \/ SetProofSize
    \/ Done
    \/ DryRun
    \/ Estimate
    \/ Execute

\* No call of resolve_type_definition is made, and no task runs.
NoResolving == [registry |-> <<>>, id |-> 0, result |-> RNone]
NoTasks == <<>>
NoDescriptor == [constructors |-> <<>>, messages |-> <<>>, events |-> <<>>]

(***************************************************************************)
(* Contract info (src/crates/extrinsics/src/contract_info.rs): what the    *)
(* chain stores for a contract and the ContractInfo the command reports.   *)
(***************************************************************************)
\* AccountId32 values: [0u8; 32] and [7u8; 32].
Accounts == {0, 7}

\* hex::encode: two lower-case hexadecimal digits to a byte.
HexDigit(n) == IF n < 10 THEN Digits[n + 1] ELSE Lower[n - 9]

HexEncode(bytes) ==
    [i \in 1..(2 * Len(bytes)) |->
        IF i % 2 = 1 THEN HexDigit(bytes[(i + 1) \div 2] \div 16)
        ELSE HexDigit(bytes[i \div 2] % 16)]

AccountData(free, reserved) == [some |-> TRUE, free |-> free, reserved |-> reserved]
NoAccountData == [some |-> FALSE, free |-> 0, reserved |-> 0]

\* The value stored under Contracts::ContractInfoOf, as decoded with the
\* chain's metadata: deposit_account is a field of some pallet versions only.
StoredInfos ==
    [some : {TRUE}, trie_id : {<<>>, <<1, 171>>}, code_hash : {5},
     storage_items : {1, 2}, storage_item_deposit : {3},
     deposit_account : {None} \cup {Some(a) : a \in Accounts}]

NoStoredInfo ==
    [some |-> FALSE, trie_id |-> <<>>, code_hash |-> 0, storage_items |-> 0,
     storage_item_deposit |-> 0, deposit_account |-> None]

\* ContractInfoRaw::new: as_type::<ContractInfoOf> and, when
\* as_type::<DepositAccount> finds its field, the deposit account.
ContractInfoRawNew(contract_account, value) ==
    [deposit_account |-> IF value.deposit_account.some
                         THEN value.deposit_account.id
                         ELSE contract_account,
     contract_info |-> [trie_id |-> value.trie_id, code_hash |-> value.code_hash,
                        storage_items |-> value.storage_items,
                        storage_item_deposit |-> value.storage_item_deposit],
     deposit_on_main_account |-> ~value.deposit_account.some]

\* into_contract_info taking the total deposit from the reserved balance
\* whatever the account.
IntoContractInfoReserved(raw, deposit) ==
    [trie_id |-> HexEncode(raw.contract_info.trie_id),
     code_hash |-> raw.contract_info.code_hash,
     storage_items |-> raw.contract_info.storage_items,
     storage_items_deposit |-> raw.contract_info.storage_item_deposit,
     storage_total_deposit |-> deposit.reserved]

\* ContractInfoRaw::into_contract_info
IntoContractInfo(raw, deposit) ==
    [trie_id |-> HexEncode(raw.contract_info.trie_id),
     code_hash |-> raw.contract_info.code_hash,
     storage_items |-> raw.contract_info.storage_items,
     storage_items_deposit |-> raw.contract_info.storage_item_deposit,
     storage_total_deposit |-> IF raw.deposit_on_main_account
                               THEN deposit.reserved
                               ELSE deposit.free]

NoContractInfo ==
    [trie_id |-> <<>>, code_hash |-> 0, storage_items |-> 0,
     storage_items_deposit |-> 0, storage_total_deposit |-> 0]

InfoState(contract, stored, balances, pc, err, queried, result) ==
    [contract |-> contract, stored |-> stored, balances |-> balances, pc |-> pc,
     err |-> err, queried |-> queried, result |-> result]

NoInfo == InfoState(0, NoStoredInfo, <<>>, "none", "", <<>>, NoContractInfo)

\* fetch_contract_info: the contract's info, the account holding its deposit,
\* that account's balances, and the ContractInfo made of them.  queried lists
\* the accounts whose System::Account entry was read.
FetchContractInfo ==
    /\ info.pc = "idle"
    /\ IF ~info.stored.some
       THEN info' = [info EXCEPT !.pc = "failed",
                                 !.err = "No contract information was found for account id"]
       ELSE LET contract_info_raw == ContractInfoRawNew(info.contract, info.stored)
                deposit_account == contract_info_raw.deposit_account
                deposit_account_data == info.balances[deposit_account]
            IN  IF ~deposit_account_data.some
                THEN info' = [info EXCEPT !.pc = "failed",
                                          !.queried = <<deposit_account>>,
                                          !.err = "Failed to fetch account data"]
                ELSE info' = [info EXCEPT
                                !.pc = "fetched",
                                !.queried = <<deposit_account>>,
                                !.result = IntoContractInfo(contract_info_raw,
                                                            deposit_account_data)]
    /\ UNCHANGED <<transcoding, contract_builder, files, upload, rpc>>

\* The command has reported; the chain is as it was.
InfoReturn ==
    /\ info.pc \in {"fetched", "failed"}
    /\ info' = [info EXCEPT !.pc = "idle", !.err = "", !.queried = <<>>,
                            !.result = NoContractInfo]
    /\ UNCHANGED <<transcoding, contract_builder, files, upload, rpc>>

InfoNext == FetchContractInfo \/ InfoReturn

(***************************************************************************)
(* The builder of the contract metadata (src/crates/metadata/src/lib.rs).  *)
(***************************************************************************)
Required == <<"name", "version", "authors">>
Optional == <<"description", "documentation", "repository", "homepage", "license">>
BuilderFields == {Required[i] : i \in 1..Len(Required)} \cup {Optional[i] : i \in 1..Len(Optional)}

Unset == [some |-> FALSE, value |-> <<>>]
SetTo(v) == [some |-> TRUE, value |-> v]

\* The values given to the setters; a text is a list of one word here.
NameValues == {<<"flipper">>, <<"erc20">>}
VersionValues == {<<"0.1.0">>, <<"1.0.0">>}
AuthorsValues == {<<>>, <<"alice">>, <<"alice", "bob">>}
TextValues == {<<"text">>}
UrlValues == {<<"docs.rs">>}

NoBuilt == [kind |-> "none", contract |-> <<>>, message |-> <<>>]

\* ContractBuilder::default(): nothing set, nothing called.
NewContractBuilder ==
    [fields |-> [f \in BuilderFields |-> Unset], pc |-> "building", last |-> "",
     panic |-> "", built |-> NoBuilt]

\* A setter: panic!(..) when the field is set already, else the field is set.
SetField(b, field, value, already) ==
    IF b.fields[field].some
    THEN [b EXCEPT !.pc = "panicked", !.last = field, !.panic = already, !.built = NoBuilt]
    ELSE [b EXCEPT !.fields[field] = SetTo(value), !.last = field, !.built = NoBuilt]

\* ContractBuilder::authors: the list is collected and must not be empty.
SetAuthorsField(b, authors) ==
    IF b.fields["authors"].some
    THEN [b EXCEPT !.pc = "panicked", !.last = "authors",
                   !.panic = "authors has already been set", !.built = NoBuilt]
    ELSE IF authors = <<>>
    THEN [b EXCEPT !.pc = "panicked", !.last = "authors",
                   !.panic = "must have at least one author", !.built = NoBuilt]
    ELSE [b EXCEPT !.fields["authors"] = SetTo(authors), !.last = "authors",
                   !.built = NoBuilt]

\* required.join(", ")
RECURSIVE Join(_, _)
Join(list, sep) ==
    IF list = <<>> THEN <<>>
    ELSE IF Len(list) = 1 THEN list
    ELSE <<Head(list), sep>> \o Join(Tail(list), sep)

\* build() of a builder that asks for the name and the version only.
BuildWithoutAuthors(b) ==
    IF b.fields["name"].some /\ b.fields["version"].some
    THEN [kind |-> "ok", contract |-> [f \in BuilderFields |-> b.fields[f]],
          message |-> <<>>]
    ELSE LET n == IF ~b.fields["name"].some THEN <<"name">> ELSE <<>>
             v == IF ~b.fields["version"].some THEN <<"version">> ELSE <<>>
         IN  [kind |-> "err", contract |-> <<>>,
              message |-> <<"Missing required non-default fields: ">>
                          \o Join(n \o v, ", ")]

\* ContractBuilder::build
Build(b) ==
    IF b.fields["name"].some /\ b.fields["version"].some /\ b.fields["authors"].some
    THEN [kind |-> "ok", contract |-> [f \in BuilderFields |-> b.fields[f]],
          message |-> <<>>]
    ELSE LET n == IF ~b.fields["name"].some THEN <<"name">> ELSE <<>>
             v == IF ~b.fields["version"].some THEN <<"version">> ELSE <<>>
             a == IF ~b.fields["authors"].some THEN <<"authors">> ELSE <<>>
         IN  [kind |-> "err", contract |-> <<>>,
              message |-> <<"Missing required non-default fields: ">>
                          \o Join(n \o v \o a, ", ")]

SetName ==
    /\ contract_builder.pc = "building"
    /\ \E name \in NameValues :
        contract_builder' = SetField(contract_builder, "name", name,
                                     "name has already been set")
    /\ UNCHANGED <<transcoding, info, files, upload, rpc>>

SetVersion ==
    /\ contract_builder.pc = "building"
    /\ \E version \in VersionValues :
        contract_builder' = SetField(contract_builder, "version", version,
                                     "version has already been set")
    /\ UNCHANGED <<transcoding, info, files, upload, rpc>>

SetAuthors ==
    /\ contract_builder.pc = "building"
    /\ \E authors \in AuthorsValues :
        contract_builder' = SetAuthorsField(contract_builder, authors)
    /\ UNCHANGED <<transcoding, info, files, upload, rpc>>

SetDescription ==
    /\ contract_builder.pc = "building"
    /\ \E description \in TextValues :
        contract_builder' = SetField(contract_builder, "description", description,
                                     "description has already been set")
    /\ UNCHANGED <<transcoding, info, files, upload, rpc>>

SetDocumentation ==
    /\ contract_builder.pc = "building"
    /\ \E documentation \in UrlValues :
        contract_builder' = SetField(contract_builder, "documentation", documentation,
                                     "documentation is already set")
    /\ UNCHANGED <<transcoding, info, files, upload, rpc>>

SetRepository ==
    /\ contract_builder.pc = "building"
    /\ \E repository \in UrlValues :
        contract_builder' = SetField(contract_builder, "repository", repository,
                                     "repository is already set")
    /\ UNCHANGED <<transcoding, info, files, upload, rpc>>

SetHomepage ==
    /\ contract_builder.pc = "building"
    /\ \E homepage \in UrlValues :
        contract_builder' = SetField(contract_builder, "homepage", homepage,
                                     "homepage is already set")
    /\ UNCHANGED <<transcoding, info, files, upload, rpc>>

SetLicense ==
    /\ contract_builder.pc = "building"
    /\ \E license \in TextValues :
        contract_builder' = SetField(contract_builder, "license", license,
                                     "license has already been set")
    /\ UNCHANGED <<transcoding, info, files, upload, rpc>>

\* build(&self): the builder stays as it is.
CallBuild ==
    /\ contract_builder.pc = "building"
    /\ contract_builder' = [contract_builder EXCEPT !.last = "build",
                                                    !.built = Build(contract_builder)]
    /\ UNCHANGED <<transcoding, info, files, upload, rpc>>

BuilderNext ==
    \/ SetName \/ SetVersion \/ SetAuthors \/ SetDescription \/ SetDocumentation
    \/ SetRepository \/ SetHomepage \/ SetLicense \/ CallBuild

(***************************************************************************)
(* The new command (src/src/cmd/new.rs): the directory tree under the      *)
(* target directory and the files of the template archive.                 *)
(***************************************************************************)
flip == <<"f", "l", "i", "p">>
my_flip == <<"m", "y", "-", "f", "l", "i", "p">>
token == <<"t", "o", "k", "e", "n">>

\* The names execute_new is called with.
ProjectNames == {flip, my_flip, token}

\* The files of the template archive, in the orders the archive may list them.
TemplateFiles == {".gitignore", "Cargo.toml", "lib.rs"}
Templates ==
    {<<".gitignore", "Cargo.toml", "lib.rs">>, <<"lib.rs", "Cargo.toml", ".gitignore">>}

\* What a path holds: nothing, a file that was there before, or the template
\* file of that name with its placeholders replaced by the contract's name.
Absent == [kind |-> "absent", entry |-> "", name |-> <<>>]
UserFile == [kind |-> "user", entry |-> "", name |-> <<>>]
Rendered(entry, name) == [kind |-> "rendered", entry |-> entry, name |-> name]

NoDir == [exists |-> FALSE, file |-> [f \in TemplateFiles |-> Absent]]

NewResult(kind, msg, path) == [kind |-> kind, msg |-> msg, path |-> path]

\* The archive's files from the i-th on written over existing ones
\* (OpenOptions::new().write(true).create(true).truncate(true)).
RECURSIVE WriteTruncating(_, _, _, _)
WriteTruncating(dir, template, i, name) ==
    IF i > Len(template)
    THEN [dir |-> dir, result |-> NewResult("ok", "Created contract", "")]
    ELSE WriteTruncating([dir EXCEPT !.file[template[i]] = Rendered(template[i], name)],
                         template, i + 1, name)

\* The loop over the archive from its i-th file on: each file is opened with
\* create_new(true), which fails on a path that exists, and then written.
RECURSIVE WriteTemplate(_, _, _, _)
WriteTemplate(dir, template, i, name) ==
    IF i > Len(template)
    THEN [dir |-> dir, result |-> NewResult("ok", "Created contract", "")]
    ELSE IF dir.file[template[i]] # Absent
    THEN [dir |-> dir,
          result |-> NewResult("err", "New contract file already exists", template[i])]
    ELSE WriteTemplate([dir EXCEPT !.file[template[i]] = Rendered(template[i], name)],
                       template, i + 1, name)

\* execute_new(name, Some(dir)): the tree after the call and its result.
ExecuteNewOn(fs, template, name) ==
    IF Contains(name, <<"-">>)
    THEN [fs |-> fs,
          result |-> NewResult("err", "Contract names cannot contain hyphens", "")]
    ELSE IF fs[name].exists /\ fs[name].file["Cargo.toml"] # Absent
    THEN [fs |-> fs, result |-> NewResult("err", "A Cargo package already exists in", "")]
    ELSE LET out_dir == [fs[name] EXCEPT !.exists = TRUE]
             w == WriteTemplate(out_dir, template, 1, name)
         IN  [fs |-> [fs EXCEPT ![name] = w.dir], result |-> w.result]

NoFiles ==
    [fs |-> <<>>, template |-> <<>>, pc |-> "none", name |-> <<>>, called |-> {},
     result |-> NewResult("none", "", "")]

\* A call of execute_new; called keeps the names it was called with before.
ExecuteNew ==
    /\ files.pc = "idle"
    /\ \E name \in ProjectNames :
        LET r == ExecuteNewOn(files.fs, files.template, name)
        IN  files' = [files EXCEPT !.fs = r.fs, !.pc = "returned", !.name = name,
                                   !.result = r.result]
    /\ UNCHANGED <<transcoding, info, contract_builder, upload, rpc>>

\* The caller takes the result.
NewReturn ==
    /\ files.pc = "returned"
    /\ files' = [files EXCEPT !.pc = "idle", !.name = <<>>,
                              !.called = files.called \cup {files.name},
                              !.result = NewResult("none", "", "")]
    /\ UNCHANGED <<transcoding, info, contract_builder, upload, rpc>>

NewNext == ExecuteNew \/ NewReturn

(***************************************************************************)
(* The upload command (src/crates/cargo-contract/src/cmd/upload.rs).  What *)
(* the node, the build and the user answer is chosen at each step.         *)
(***************************************************************************)
\* --execute, --output-json, the chain (a production chain or a custom end
\* point) and whether the build is verifiable (is_verifiable may fail too).
UploadOptions ==
    [execute : BOOLEAN, output_json : BOOLEAN, chain : {"production", "custom"},
     verifiable : {"yes", "no", "err"}]

NoUploadOptions ==
    [execute |-> FALSE, output_json |-> FALSE, chain |-> "", verifiable |-> ""]

UploadResult(kind, msg) == [kind |-> kind, msg |-> msg]

UploadState(opts, pc, sent, prompt, code_stored, result) ==
    [opts |-> opts, pc |-> pc, sent |-> sent, prompt |-> prompt,
     code_stored |-> code_stored, result |-> result]

NoUpload == UploadState(NoUploadOptions, "none", <<>>, "none", FALSE, UploadResult("none", ""))

\* The signer, the token metadata, the storage deposit limit and
\* UploadCommandBuilder::done: any of them may fail, before any upload call.
UploadPrepare ==
    /\ upload.pc = "start"
    /\ \E ok \in BOOLEAN :
        upload' = IF ok THEN [upload EXCEPT !.pc = "ready"]
                  ELSE [upload EXCEPT !.pc = "returned",
                                      !.result = UploadResult("err", "setup failed")]
    /\ UNCHANGED <<transcoding, info, contract_builder, files, rpc>>

\* Without --execute: upload_code_rpc, the dry-run, and its result shown; a
\* dispatch error is returned with --output-json and printed without it.
UploadDryRun ==
    /\ upload.pc = "ready"
    /\ ~upload.opts.execute
    /\ \E answer \in {"ok", "dispatch error", "rpc error"} :
        upload' =
            [upload EXCEPT
                !.pc = "returned",
                !.sent = Append(upload.sent, "upload_code_rpc"),
                !.result =
                    CASE answer = "rpc error" -> UploadResult("err", "rpc error")
                      [] answer = "dispatch error" ->
                            IF upload.opts.output_json
                            THEN UploadResult("err", "dispatch error")
                            ELSE UploadResult("ok", "")
                      [] answer = "ok" -> UploadResult("ok", "")]
    /\ UNCHANGED <<transcoding, info, contract_builder, files, rpc>>

\* With --execute and no question asked: the upload goes ahead whatever the
\* chain and the build.
UploadConfirmUnasked ==
    /\ upload.pc = "ready"
    /\ upload.opts.execute
    /\ upload' = [upload EXCEPT !.pc = "confirmed"]
    /\ UNCHANGED <<transcoding, info, contract_builder, files, rpc>>

\* With --execute: on a production chain a build that is not verifiable is
\* uploaded only if the user confirms at the prompt.
UploadConfirm ==
    /\ upload.pc = "ready"
    /\ upload.opts.execute
    /\ IF upload.opts.chain = "production"
       THEN CASE upload.opts.verifiable = "err" ->
                    upload' = [upload EXCEPT
                                 !.pc = "returned",
                                 !.result = UploadResult("err", "is_verifiable failed")]
              [] upload.opts.verifiable = "yes" ->
                    upload' = [upload EXCEPT !.pc = "confirmed"]
              [] upload.opts.verifiable = "no" ->
                    \E answer \in {"ok", "err"} :
                        upload' = IF answer = "ok"
                                  THEN [upload EXCEPT !.pc = "confirmed", !.prompt = "ok"]
                                  ELSE [upload EXCEPT
                                          !.pc = "returned", !.prompt = "err",
                                          !.result = UploadResult("err", "not confirmed")]
       ELSE upload' = [upload EXCEPT !.pc = "confirmed"]
    /\ UNCHANGED <<transcoding, info, contract_builder, files, rpc>>

\* upload_exec.upload_code(): the extrinsic is submitted; its events may or may
\* not hold a CodeStored event.
UploadCode ==
    /\ upload.pc = "confirmed"
    /\ \E answer \in {"stored", "not stored", "err"} :
        upload' =
            IF answer = "err"
            THEN [upload EXCEPT !.pc = "returned",
                                !.sent = Append(upload.sent, "upload_code"),
                                !.result = UploadResult("err", "extrinsic failed")]
            ELSE [upload EXCEPT !.pc = "submitted",
                                !.sent = Append(upload.sent, "upload_code"),
                                !.code_stored = (answer = "stored")]
    /\ UNCHANGED <<transcoding, info, contract_builder, files, rpc>>

\* The events are shown (which may fail), then the code hash of the CodeStored
\* event; without that event the command fails.
UploadReport ==
    /\ upload.pc = "submitted"
    /\ \E shown \in BOOLEAN :
        upload' =
            [upload EXCEPT
                !.pc = "returned",
                !.result =
                    IF ~shown THEN UploadResult("err", "events not shown")
                    ELSE IF upload.code_stored THEN UploadResult("ok", "")
                    ELSE UploadResult("err",
                            "This contract has already been uploaded with code hash")]
    /\ UNCHANGED <<transcoding, info, contract_builder, files, rpc>>

UploadNext == UploadPrepare \/ UploadDryRun \/ UploadConfirm \/ UploadCode \/ UploadReport

(***************************************************************************)
(* The rpc command (src/crates/cargo-contract/src/cmd/rpc.rs).             *)
(***************************************************************************)
\* parameters given to one rpc command
MaxParams == 2

\* The parameters as typed: numbers, one with a leading zero, the booleans
\* and a text that parse_value does not parse.
ParamPool ==
    {<<"1">>, <<"4", "2">>, <<"0", "7">>, <<"t", "r", "u", "e">>,
     <<"f", "a", "l", "s", "e">>, <<"?">>}

\* The digits of a number without leading zeros, as a number is printed.
Canonical(digits) ==
    LET nz == {i \in 1..Len(digits) : digits[i] # "0"}
    IN  IF nz = {} THEN <<"0">>
        ELSE SubSeq(digits, CHOOSE i \in nz : \A j \in nz : i <= j, Len(digits))

ScUInt(digits) == [kind |-> "uint", digits |-> digits, bool |-> FALSE]
ScBool(b) == [kind |-> "bool", digits |-> <<>>, bool |-> b]
ScInvalid == [kind |-> "invalid", digits |-> <<>>, bool |-> FALSE]

\* contract_transcode::scon::parse_value on the literals of the model.
ParseValue(text) ==
    IF text = <<"t", "r", "u", "e">> THEN ScBool(TRUE)
    ELSE IF text = <<"f", "a", "l", "s", "e">> THEN ScBool(FALSE)
    ELSE IF text # <<>> /\ \A i \in 1..Len(text) : IsDigit(text[i])
    THEN ScUInt(Canonical(text))
    ELSE ScInvalid

\* serde_json::to_string of a parsed value.
ToJson(value) ==
    CASE value.kind = "uint" -> value.digits
      [] value.kind = "bool" ->
            IF value.bool THEN <<"t", "r", "u", "e">> ELSE <<"f", "a", "l", "s", "e">>

\* The loop of run: json = format!("{json}, {}", to_string(&p)) for each
\* parameter from the i-th on.
RECURSIVE AppendParams(_, _, _)
AppendParams(json, params, i) ==
    IF i > Len(params) THEN json
    ELSE AppendParams(json \o <<",", " ">> \o ToJson(ParseValue(params[i])), params, i + 1)

\* The text cut at every top-level occurrence of the separator character.
RECURSIVE Split(_, _)
Split(text, sep) ==
    IF \A i \in 1..Len(text) : text[i] # sep THEN <<text>>
    ELSE LET i == CHOOSE k \in 1..Len(text) :
                     text[k] = sep /\ \A j \in 1..(k - 1) : text[j] # sep
         IN  <<SubSeq(text, 1, i - 1)>> \o Split(SubSeq(text, i + 1, Len(text)), sep)

\* A text without the spaces around it.
Trim(text) ==
    LET ink == {i \in 1..Len(text) : text[i] # " "}
    IN  IF ink = {} THEN <<>>
        ELSE SubSeq(text, CHOOSE i \in ink : \A j \in ink : i <= j,
                          CHOOSE i \in ink : \A j \in ink : j <= i)

\* A JSON number without sign, fraction or exponent, or a JSON literal.
IsJsonScalar(text) ==
    \/ text \in {<<"t", "r", "u", "e">>, <<"f", "a", "l", "s", "e">>, <<"n", "u", "l", "l">>}
    \/ /\ text # <<>>
       /\ \A i \in 1..Len(text) : IsDigit(text[i])
       /\ (Len(text) > 1 => text[1] # "0")

\* The elements of a JSON array of scalars.
JsonElements(text) ==
    LET inner == Trim(SubSeq(text, 2, Len(text) - 1))
        parts == Split(inner, ",")
    IN  IF inner = <<>> THEN <<>> ELSE [i \in 1..Len(parts) |-> Trim(parts[i])]

\* RawValue::from_string accepts the text: here, an array of scalars.
IsJsonArray(text) ==
    /\ Len(text) >= 2
    /\ text[1] = "["
    /\ text[Len(text)] = "]"
    /\ \A i \in 1..Len(JsonElements(text)) : IsJsonScalar(JsonElements(text)[i])

RpcResult(kind, msg) == [kind |-> kind, msg |-> msg]
NoParams == [some |-> FALSE, raw |-> <<>>]

NoRpc ==
    [params |-> <<>>, pc |-> "none", json |-> <<>>, passed |-> NoParams,
     executed |-> FALSE, result |-> RpcResult("none", "")]

\* RpcCommand::run: the connection, the params text, the raw value and the
\* request; the node answers the request or fails it.
RpcRun ==
    /\ rpc.pc = "start"
    /\ \E connected \in BOOLEAN, answered \in BOOLEAN :
        IF ~connected
        THEN rpc' = [rpc EXCEPT !.pc = "returned",
                                !.result = RpcResult("err", "connection failed")]
        ELSE IF rpc.params = <<>>
        THEN rpc' = [rpc EXCEPT !.pc = "returned", !.executed = TRUE,
                                !.result = IF answered THEN RpcResult("ok", "")
                                           ELSE RpcResult("err", "Err: request failed")]
        ELSE IF \E i \in 1..Len(rpc.params) : ParseValue(rpc.params[i]).kind = "invalid"
        THEN rpc' = [rpc EXCEPT !.pc = "returned", !.result = RpcResult("panic", "")]
        ELSE LET json == <<"[">> \o AppendParams(<<>>, rpc.params, 1) \o <<"]">>
             IN  IF ~IsJsonArray(json)
                 THEN rpc' = [rpc EXCEPT !.pc = "returned", !.json = json,
                                         !.result = RpcResult("err", "Raw Value creation failed")]
                 ELSE rpc' = [rpc EXCEPT
                                !.pc = "returned", !.json = json, !.executed = TRUE,
                                !.passed = [some |-> TRUE, raw |-> json],
                                !.result = IF answered THEN RpcResult("ok", "")
                                           ELSE RpcResult("err", "Err: request failed")]
    /\ UNCHANGED <<transcoding, info, contract_builder, files, upload>>

\* The command has returned; it can be run again on the same parameters.
RpcReturn ==
    /\ rpc.pc = "returned"
    /\ rpc' = [rpc EXCEPT !.pc = "start", !.json = <<>>, !.passed = NoParams,
                          !.executed = FALSE, !.result = RpcResult("none", "")]
    /\ UNCHANGED <<transcoding, info, contract_builder, files, upload>>

RpcNext == RpcRun \/ RpcReturn

\* Every command idle: the state of the parts a specification does not run.
CommandsIdle ==
    /\ info = NoInfo
    /\ contract_builder = NewContractBuilder
    /\ files = NoFiles
    /\ upload = NoUpload
    /\ rpc = NoRpc

\* The transcoding and call models idle.
TranscodingIdle ==
    /\ metadata = NoDescriptor
    /\ call = Idle
    /\ envIn = NoEnvInput
    /\ envOut = NoEnvResult
    /\ cmd = NewBuilder
    /\ resolving = NoResolving
    /\ tasks = NoTasks

(***************************************************************************)
(* The initial states: a Codec on one of the descriptors, the check's     *)
(* inputs as a chain and a contract declare them, and a new builder.  The  *)
(* parts a specification does not run stay as they start.                  *)
(***************************************************************************)
CodecInit ==
    /\ metadata \in Descriptors
    /\ call = Idle
    /\ envIn = NoEnvInput
    /\ envOut = NoEnvResult
    /\ cmd = NewBuilder
    /\ resolving = NoResolving
    /\ tasks = NoTasks
    /\ CommandsIdle

EnvInit ==
    /\ \E nd \in Declarations, cd \in Declarations :
        envIn = [node |-> NodeFields(nd), contract |-> ContractEnvironment(cd)]
    /\ envOut = NoEnvResult
    /\ metadata = CallDescriptor
    /\ call = Idle
    /\ cmd = NewBuilder
    /\ resolving = NoResolving
    /\ tasks = NoTasks
    /\ CommandsIdle

CallInit ==
    /\ cmd = NewBuilder
    /\ metadata = CallDescriptor
    /\ call = Idle
    /\ envIn = NoEnvInput
    /\ envOut = NoEnvResult
    /\ resolving = NoResolving
    /\ tasks = NoTasks
    /\ CommandsIdle

ResolveInit ==
    /\ resolving \in [registry : Registries, id : 0..MaxTypes, result : {RNone}]
    /\ metadata = NoDescriptor
    /\ call = Idle
    /\ envIn = NoEnvInput
    /\ envOut = NoEnvResult
    /\ cmd = NewBuilder
    /\ tasks = NoTasks
    /\ CommandsIdle

ArgsInit ==
    /\ metadata \in {ArgDescriptor(t) : t \in DOMAIN TypeRegistry}
    /\ call = Idle
    /\ envIn = NoEnvInput
    /\ envOut = NoEnvResult
    /\ cmd = NewBuilder
    /\ resolving = NoResolving
    /\ tasks = NoTasks
    /\ CommandsIdle

ValuesInit ==
    /\ metadata = NoDescriptor
    /\ call = Idle
    /\ envIn = NoEnvInput
    /\ envOut = NoEnvResult
    /\ cmd = NewBuilder
    /\ resolving = NoResolving
    /\ tasks = NoTasks
    /\ CommandsIdle

(***************************************************************************)
(* The specifications: the Codec's calls on a descriptor, the environment  *)
(* check of a chain and a contract, and the call command.                  *)
(***************************************************************************)
SpecCodec == CodecInit /\ [][CodecNext]_vars

SpecEnv == EnvInit /\ [][EnvNext]_vars

\* The check of a custom environment against the chain's.
CustomEnvInit ==
    /\ \E nd \in CustomDeclarations, cd \in CustomDeclarations :
        envIn = [node |-> NodeFields(nd), contract |-> ContractEnvironment(cd)]
    /\ envOut = NoEnvResult
    /\ metadata = CallDescriptor
    /\ call = Idle
    /\ cmd = NewBuilder
    /\ resolving = NoResolving
    /\ tasks = NoTasks
    /\ CommandsIdle

SpecCustomEnv == CustomEnvInit /\ [][EnvNext]_vars

SpecCall == CallInit /\ [][CallNext]_vars

SpecResolve == ResolveInit /\ [][ResolveNext]_vars

SpecArgs == ArgsInit /\ [][ArgsNext]_vars

SpecValues == ValuesInit /\ [][ValuesNext]_vars

(***************************************************************************)
(* Tasks sharing one Codec. Every method of the Codec takes &self: a task  *)
(* looks its spec up in the shared descriptor, keeps the reference, and    *)
(* encodes or decodes through it, other tasks running in between.  A      *)
(* reference is the index of the spec in its list.                         *)
(***************************************************************************)
SharedDescriptors ==
    {[constructors |-> ConstructorPool,
      messages |-> <<MessagePool[2], MessagePool[1]>>,
      events |-> EventPool],
     [constructors |-> <<ConstructorPool[2]>>,
      messages |-> <<MessagePool[1], MessagePool[3]>>,
      events |-> <<EventPool[2]>>]}

\* The calls a task makes.
Requests ==
    {[op |-> "encode_constructor", name |-> new, args |-> <<<<"t", "r", "u", "e">>>>, data |-> <<>>],
     [op |-> "encode_message", name |-> foo, args |-> <<<<"4", "2">>, <<"t", "r", "u", "e">>>>, data |-> <<>>],
     [op |-> "encode_message", name |-> foobar, args |-> <<<<"4", "2">>>>, data |-> <<>>],
     [op |-> "decode_return", name |-> foo, args |-> <<>>, data |-> <<1>>],
     [op |-> "decode_return", name |-> zap, args |-> <<>>, data |-> <<>>],
     [op |-> "decode_events", name |-> <<>>, args |-> <<>>, data |-> <<1>>]}

\* The spec a call takes a reference to: the one find() stops at, or the event
\* at the discriminant; 0 when the call returns before taking one.
Lookup(md, t) ==
    CASE t.op = "encode_constructor" -> FindSpec(md.constructors, t.name)
      [] t.op \in {"encode_message", "decode_return"} -> FindSpec(md.messages, t.name)
      [] t.op = "decode_events" ->
            IF t.data = <<>> \/ Head(t.data) >= Len(md.events) THEN 0
            ELSE Head(t.data) + 1

\* The rest of the call, through the reference it holds.
Finish(md, t) ==
    CASE t.op = "encode_constructor" ->
            IF t.found = 0 THEN NotFound(t.name, Names(md.constructors))
            ELSE Encode(TypeRegistry, md.constructors[t.found].selector,
                        md.constructors[t.found].args, t.args)
      [] t.op = "encode_message" ->
            IF t.found = 0 THEN NotFound(t.name, Names(md.messages))
            ELSE Encode(TypeRegistry, md.messages[t.found].selector,
                        md.messages[t.found].args, t.args)
      [] t.op = "decode_return" ->
            IF t.found = 0 THEN NotFound(t.name, Names(md.messages))
            ELSE IF md.messages[t.found].return_type.some
                 THEN IF ~Resolves(TypeRegistry, md.messages[t.found].return_type.id)
                      THEN Err("ResolveError")
                      ELSE DecodeToString(TypeRegistry[md.messages[t.found].return_type.id],
                                          t.data).result
                 ELSE OkText(<<>>)
      [] t.op = "decode_events" ->
            IF t.data = <<>> THEN Err("Not enough data to fill buffer")
            ELSE IF t.found = 0 THEN EventNotFound(Head(t.data))
            ELSE OkEvent([name |-> md.events[t.found].name,
                          args |-> [i \in 1..Len(md.events[t.found].args) |->
                                      [name |-> md.events[t.found].args[i].name,
                                       value |-> <<"T", "O", "D", "O">>]]])

\* A task calls a method of the shared Codec.
TaskCall(id) ==
    /\ tasks[id].pc = "idle"
    /\ \E r \in Requests :
        tasks' = [tasks EXCEPT ![id] =
                    [pc |-> "called", op |-> r.op, name |-> r.name, args |-> r.args,
                     data |-> r.data, found |-> 0, result |-> NoResult]]
    /\ UNCHANGED <<metadata, call, envIn, envOut, cmd, resolving, commands>>

\* A lookup that moves the message it found to the front of the descriptor's
\* list, as a cache of the last call would.
TaskFindCaching(id) ==
    /\ tasks[id].pc = "called"
    /\ LET i == Lookup(metadata, tasks[id])
           ms == metadata.messages
       IN  /\ tasks' = [tasks EXCEPT ![id].pc = "found", ![id].found = IF i = 0 THEN 0 ELSE 1]
           /\ metadata' =
                IF i = 0 \/ tasks[id].op \notin {"encode_message", "decode_return"}
                THEN metadata
                ELSE [metadata EXCEPT !.messages =
                        <<ms[i]>> \o SubSeq(ms, 1, i - 1) \o SubSeq(ms, i + 1, Len(ms))]
    /\ UNCHANGED <<call, envIn, envOut, cmd, resolving, commands>>

\* The call looks its spec up through &self and keeps the reference.
TaskFind(id) ==
    /\ tasks[id].pc = "called"
    /\ tasks' = [tasks EXCEPT ![id].pc = "found",
                              ![id].found = Lookup(metadata, tasks[id])]
    /\ UNCHANGED <<metadata, call, envIn, envOut, cmd, resolving, commands>>

\* The call encodes or decodes through the reference and returns.
TaskReturn(id) ==
    /\ tasks[id].pc = "found"
    /\ tasks' = [tasks EXCEPT ![id].pc = "returned",
                              ![id].result = Finish(metadata, tasks[id])]
    /\ UNCHANGED <<metadata, call, envIn, envOut, cmd, resolving, commands>>

\* The task takes the result and is free to call again.
TaskDone(id) ==
    /\ tasks[id].pc = "returned"
    /\ tasks' = [tasks EXCEPT ![id] =
                    [pc |-> "idle", op |-> "", name |-> <<>>, args |-> <<>>,
                     data |-> <<>>, found |-> 0, result |-> NoResult]]
    /\ UNCHANGED <<metadata, call, envIn, envOut, cmd, resolving, commands>>

TasksNext ==
    \/ \E id \in 1..MaxTasks : TaskCall(id)
    \/ \E id \in 1..MaxTasks : TaskFind(id)
    \/ \E id \in 1..MaxTasks : TaskReturn(id)
    \/ \E id \in 1..MaxTasks : TaskDone(id)

TasksInit ==
    /\ metadata \in SharedDescriptors
    /\ tasks = [id \in 1..MaxTasks |->
                  [pc |-> "idle", op |-> "", name |-> <<>>, args |-> <<>>,
                   data |-> <<>>, found |-> 0, result |-> NoResult]]
    /\ call = Idle
    /\ envIn = NoEnvInput
    /\ envOut = NoEnvResult
    /\ cmd = NewBuilder
    /\ resolving = NoResolving
    /\ CommandsIdle

SpecTasks == TasksInit /\ [][TasksNext]_vars

(***************************************************************************)
(* The commands: what the chain stores, a new builder, the tree before the *)
(* first execute_new, the options of an upload, the parameters of an rpc.  *)
(***************************************************************************)
InfoInit ==
    /\ \E contract \in Accounts, stored \in StoredInfos \cup {NoStoredInfo},
          balances \in [Accounts -> {NoAccountData, AccountData(1, 10), AccountData(2, 20)}] :
        info = InfoState(contract, stored, balances, "idle", "", <<>>, NoContractInfo)
    /\ contract_builder = NewContractBuilder
    /\ files = NoFiles
    /\ upload = NoUpload
    /\ rpc = NoRpc
    /\ TranscodingIdle

BuilderInit ==
    /\ contract_builder = NewContractBuilder
    /\ info = NoInfo
    /\ files = NoFiles
    /\ upload = NoUpload
    /\ rpc = NoRpc
    /\ TranscodingIdle

NewInit ==
    /\ \E fs \in [ProjectNames ->
                    {NoDir} \cup [exists : {TRUE},
                                  file : [TemplateFiles -> {Absent, UserFile}]]],
          template \in Templates :
        files = [NoFiles EXCEPT !.fs = fs, !.template = template, !.pc = "idle"]
    /\ info = NoInfo
    /\ contract_builder = NewContractBuilder
    /\ upload = NoUpload
    /\ rpc = NoRpc
    /\ TranscodingIdle

UploadInit ==
    /\ \E opts \in UploadOptions :
        upload = [NoUpload EXCEPT !.opts = opts, !.pc = "start"]
    /\ info = NoInfo
    /\ contract_builder = NewContractBuilder
    /\ files = NoFiles
    /\ rpc = NoRpc
    /\ TranscodingIdle

RpcInit ==
    /\ \E params \in SeqsUpTo(ParamPool, MaxParams) :
        rpc = [NoRpc EXCEPT !.params = params, !.pc = "start"]
    /\ info = NoInfo
    /\ contract_builder = NewContractBuilder
    /\ files = NoFiles
    /\ upload = NoUpload
    /\ TranscodingIdle

SpecInfo == InfoInit /\ [][InfoNext]_vars

SpecBuilder == BuilderInit /\ [][BuilderNext]_vars

SpecNew == NewInit /\ [][NewNext]_vars

SpecUpload == UploadInit /\ [][UploadNext]_vars

SpecRpc == RpcInit /\ [][RpcNext]_vars

(***************************************************************************)
(* The claims about the Codec (SpecCodec).                                 *)
(***************************************************************************)
\* The spec of exactly this name among specs (0: none); names are unique.
Declared(specs, name) ==
    IF \E i \in 1..Len(specs) : specs[i].name = name
    THEN CHOOSE i \in 1..Len(specs) : specs[i].name = name
    ELSE 0

\* The specs the call in progress looks its name up in.
CalledSpecs ==
    IF call.op = "encode_constructor" THEN metadata.constructors ELSE metadata.messages

\* The encoding of one textual value as a registered type.
EncodingOf(id, arg) ==
    EncodeArg(TypeRegistry, TypeRegistry[id], arg, StackDepth(TypeRegistry))

\* C1: encode_constructor / encode_message called for a declared constructor or
\* message with fewer textual arguments than it declares fails with
\* ArityMismatch: it returns no call data.
C1_ArityMismatch ==
    LET i == Declared(CalledSpecs, call.name)
    IN  (/\ call.op \in {"encode_constructor", "encode_message"}
         /\ i # 0
         /\ Len(call.args) < Len(CalledSpecs[i].args))
        => (call.result.kind = "err" /\ call.result.err = "ArityMismatch")

HasTrailingBytes(id, data) ==
    \E k \in 1..(Len(data) - 1), v \in ValuePool :
        EncodingOf(id, v) = OkBytes(SubSeq(data, 1, k))

\* C6: decode_return of a declared message with a return type, on an encoding
\* of that type followed by at least one more byte, fails with TrailingBytes;
\* a decode_return that succeeds was given the bytes of the value it returns
\* and no byte more.
C6_TrailingBytes ==
    LET i == Declared(metadata.messages, call.name)
        ret == metadata.messages[i].return_type
    IN  (call.op = "decode_return" /\ i # 0 /\ ret.some)
        => /\ HasTrailingBytes(ret.id, call.data)
                => (call.result.kind = "err" /\ call.result.err = "TrailingBytes")
           /\ call.result.kind = "ok"
                => EncodingOf(ret.id, call.result.text) = OkBytes(call.data)

\* C7: decoding as a primitive type the bytes that encoding a textual value as
\* that type produced succeeds, and yields a text of the same value (one that
\* encodes to the same bytes).
C7_RoundTrip ==
    call.op = "round_trip"
    => /\ call.result.kind = "ok"
       /\ EncodePrimitive(call.prim, call.result.text) = OkBytes(call.encoded)

\* C8: a decode that returns a value has consumed exactly that value's bytes
\* and left the caller's cursor right after them; a decode on no bytes at all
\* returns no value.
C8_CursorAdvanced ==
    call.op = "decode_to_string"
    => /\ call.result.kind = "ok"
            => \E k \in 1..Len(call.data) :
                /\ EncodePrimitive(call.prim, call.result.text) =
                     OkBytes(SubSeq(call.data, 1, k))
                /\ call.cursor = SubSeq(call.data, k + 1, Len(call.data))
       /\ call.data = <<>> => call.result.kind # "ok"

\* C9: with n declared events, decode_events on data whose first byte is i
\* returns the name and the argument names, in order, of the i-th event
\* counted from 0 when i < n, and fails with the event-not-found error
\* carrying i when i >= n.
C9_EventDiscriminant ==
    (call.op = "decode_events" /\ call.data # <<>>)
    => LET i == Head(call.data)
           n == Len(metadata.events)
       IN  IF i < n
           THEN /\ call.result.kind = "ok"
                /\ call.result.event.name = metadata.events[i + 1].name
                /\ Len(call.result.event.args) = Len(metadata.events[i + 1].args)
                /\ \A k \in 1..Len(metadata.events[i + 1].args) :
                     call.result.event.args[k].name = metadata.events[i + 1].args[k].name
           ELSE /\ call.result.kind = "err"
                /\ call.result.err = "EventNotFound"
                /\ call.result.index = i

\* decode_events was called with the discriminant equal to the number of
\* declared events and failed, the descriptor declaring events.
C9_Witness ==
    /\ call.op = "decode_events"
    /\ call.data # <<>>
    /\ metadata.events # <<>>
    /\ Head(call.data) = Len(metadata.events)
    /\ call.result.err = "EventNotFound"

ShapeOf(registry, id) ==
    LET def == Resolve(registry, id).def
    IN  IF def.kind = "Array"
        THEN <<"Array", def.len, Resolve(registry, def.param).def.prim>>
        ELSE <<def.kind, 0, def.prim>>

\* The chain's and the contract's declaration of an environment field.
NodeDeclares(name) ==
    LET i == CHOOSE j \in 1..Len(envIn.node) : envIn.node[j].name.text = name
    IN  ShapeOf(NodeRegistry(envIn.node), envIn.node[i].ty)

ContractDeclares(name) ==
    ShapeOf(ContractTypes, envIn.contract[name])

Differing == {n \in EnvironmentNames : NodeDeclares(n) # ContractDeclares(n)}

\* C3: the contract declaring account_id as 32 bytes and the chain as 20, the
\* check fails with the incompatibility error that names account_id.
C3_ArrayLengthNamesField ==
    (/\ envOut.kind # "none"
     /\ ContractDeclares("account_id") = <<"Array", 32, "U8">>
     /\ NodeDeclares("account_id") = <<"Array", 20, "U8">>)
    => envOut = CheckFailed("account_id")

\* C4: the check returns Ok when chain and contract declare the five fields
\* alike, and fails with the error naming the field when exactly one field's
\* width differs.
C4_SingleFieldNamed ==
    envOut.kind # "none"
    => /\ Differing = {} => envOut = EnvOk
       /\ \A n \in EnvironmentNames : Differing = {n} => envOut = CheckFailed(n)

(***************************************************************************)
(* The claims about the call command (SpecCall).                           *)
(***************************************************************************)
\* C5: a CallExec exists only after check_env_types returned Ok, so that no
\* dry-run and no extrinsic reaches the node in a run in which the check
\* failed or did not run.
C5_EnvCheckBeforeCalls ==
    (cmd.pc = "exec" \/ cmd.sent # <<>>) => cmd.env_check = "ok"

\* A CallExec was built, after the check, and has submitted an extrinsic.
C5_Witness ==
    /\ cmd.pc = "exec"
    /\ cmd.env_check = "ok"
    /\ \E k \in 1..Len(cmd.sent) : cmd.sent[k] = "submit_extrinsic"

(***************************************************************************)
(* The claims about resolve_type_definition (SpecResolve).  A wrapper is a *)
(* registered type without type parameters that is a composite of a single *)
(* unnamed field, or a type with a type parameter that names a type; it    *)
(* wraps the type of the field, or of the first parameter.                 *)
(***************************************************************************)
Wraps(registry, a, b) ==
    /\ a \in DOMAIN registry
    /\ LET tt == registry[a]
       IN  IF tt.type_params = <<>>
           THEN /\ tt.type_def.kind = "Composite"
                /\ Len(tt.type_def.fields) = 1
                /\ ~tt.type_def.fields[1].name.named
                /\ tt.type_def.fields[1].ty = b
           ELSE /\ tt.type_params[1].some
                /\ tt.type_params[1].id = b

\* The ids that unwrapping id passes through in at most n steps, id itself
\* among them.
RECURSIVE Walk(_, _, _)
Walk(registry, id, n) ==
    {id} \cup IF n = 0 THEN {}
              ELSE UNION {Walk(registry, b, n - 1) :
                            b \in {c \in 0..MaxTypes : Wraps(registry, id, c)}}

Reached(registry, id) == Walk(registry, id, MaxTypes)

\* C11: resolving an id the registry does not hold fails with the error "Type
\* is not present in registry", whether the id is the one passed in or is
\* reached while unwrapping a wrapper composite or a type parameter.
C11_UnknownType ==
    (resolving.result # RNone /\ MaxTypes \in Reached(resolving.registry, resolving.id))
    => resolving.result = RErr("Type is not present in registry")

\* A registered wrapper was resolved whose unwrapping reaches an id that is
\* not registered, and the call failed with the error.
C11_Witness ==
    /\ resolving.id \in DOMAIN resolving.registry
    /\ MaxTypes \in Reached(resolving.registry, resolving.id)
    /\ resolving.result = RErr("Type is not present in registry")

\* The registered type at which the unwrapping of id ends, if it ends at one.
Last(registry, id) ==
    {t \in Reached(registry, id) \cap DOMAIN registry :
        \A b \in 0..MaxTypes : ~Wraps(registry, t, b)}

\* C12: resolve_type_definition returns the definition of the first type
\* reached that is no wrapper: a primitive's or an array's definition, and
\* never the definition of what a composite with a named field holds.
C12_ResolvesThroughWrappers ==
    resolving.result # RNone
    => \A t \in Last(resolving.registry, resolving.id) :
         LET tt == resolving.registry[t]
         IN  /\ tt.type_def.kind # "Composite"
                => resolving.result = ROk(tt.type_def)
             /\ (/\ tt.type_params = <<>>
                 /\ tt.type_def.kind = "Composite"
                 /\ Len(tt.type_def.fields) = 1
                 /\ resolving.result.kind = "ok")
                => resolving.result.def = tt.type_def

\* C13: when the unwrapping reaches a composite without type parameters that
\* has no field or more than one, the call fails with the error "Composite
\* field has incorrect composite type format".
C13_AmbiguousComposite ==
    resolving.result # RNone
    => \A t \in Reached(resolving.registry, resolving.id) \cap DOMAIN resolving.registry :
         LET tt == resolving.registry[t]
         IN  (/\ tt.type_params = <<>>
              /\ tt.type_def.kind = "Composite"
              /\ Len(tt.type_def.fields) # 1)
             => resolving.result =
                  RErr("Composite field has incorrect composite type format")

\* A wrapper of a composite without fields was resolved and the call failed.
C13_Witness ==
    /\ resolving.result = RErr("Composite field has incorrect composite type format")
    /\ \E t \in Reached(resolving.registry, resolving.id) \cap DOMAIN resolving.registry :
         /\ t # resolving.id
         /\ resolving.registry[t].type_params = <<>>
         /\ resolving.registry[t].type_def = Composite(<<>>)

\* C14: every call of resolve_type_definition returns, with a definition or
\* with an error, on registries with self-referential wrappers too.
C14_ResolutionTerminates ==
    resolving.result # RNone => resolving.result.kind \in {"ok", "err"}

(***************************************************************************)
(* The claims about the encoding of one argument (SpecArgs).               *)
(***************************************************************************)
\* The type of the argument of the one message declared.
ArgType == TypeRegistry[metadata.messages[1].args[1].ty]

GetSelector == metadata.messages[1].selector

\* C15: an argument that is a fixed array of u8 is accepted as hexadecimal
\* digits with a 0x prefix and without one, both giving the bytes the digits
\* spell; a fixed array of another element type is an error.
C15_HexPrefix ==
    (call.op = "encode_message" /\ ArgType.kind = "Array")
    => IF TypeRegistry[ArgType.param] = Primitive("U8")
       THEN /\ call.args[1] \in {<<"0", "1", "0", "2">>, <<"0", "x", "0", "1", "0", "2">>}
               => call.result = OkBytes(GetSelector \o <<1, 2>>)
            /\ call.args[1] \in {<<"f", "F">>, <<"0", "x", "f", "F">>}
               => call.result = OkBytes(GetSelector \o <<255>>)
       ELSE call.result.kind = "err"

\* The types the encoder does not support.
Unsupported(def) ==
    \/ def.kind \in {"Variant", "Sequence", "Tuple"}
    \/ def = Primitive("Char")
    \/ def.kind = "Composite" /\ Len(def.fields) # 1
    \/ def.kind = "Composite" /\ Len(def.fields) = 1 /\ def.fields[1].name.named

\* C16: encode_message with an argument of a type the encoder does not
\* support returns an error; it neither aborts nor returns bytes.
C16_UnsupportedIsError ==
    (call.op = "encode_message" /\ Unsupported(ArgType)) => call.result.kind = "err"

\* C17: with the argument of type 1, a composite of one unnamed field of type
\* 0 (u32), encoding "42" gives the selector and 2A 00 00 00, and decoding
\* those four bytes as type 1 gives 42.
C17_TransparentComposite ==
    ArgType = Composite(<<Field(NoName, 0)>>)
    => /\ (call.op = "encode_message" /\ call.args = <<<<"4", "2">>>>)
          => call.result = OkBytes(GetSelector \o <<42, 0, 0, 0>>)
       /\ (call.op = "decode_return" /\ call.data = <<42, 0, 0, 0>>)
          => call.result = OkText(<<"4", "2">>)

(***************************************************************************)
(* C18: integers and booleans. The value a text denotes and the value a    *)
(* byte string holds are compared by their residues modulo nine primes     *)
(* whose product exceeds 2^129, which decides equality of numbers below    *)
(* that.                                                                    *)
(***************************************************************************)
Moduli == {46337, 46327, 46309, 46307, 46301, 46279, 46273, 46271, 46261}

\* b^k modulo m.
RECURSIVE PowMod(_, _, _)
PowMod(b, k, m) ==
    IF k = 0
    THEN 1
    ELSE LET h == PowMod(b, k \div 2, m)
             sq == (h * h) % m
         IN  IF k % 2 = 0 THEN sq ELSE (sq * (b % m)) % m

\* terms[lo] + ... + terms[hi].
RECURSIVE SumRange(_, _, _)
SumRange(terms, lo, hi) ==
    IF lo > hi THEN 0
    ELSE IF lo = hi THEN terms[lo]
    ELSE LET mid == (lo + hi) \div 2
         IN  SumRange(terms, lo, mid) + SumRange(terms, mid + 1, hi)

\* The number a decimal digit string writes, modulo m.
ValueMod(digits, m) ==
    SumRange([i \in 1..Len(digits) |->
                 DigitVal(digits[i]) * PowMod(10, Len(digits) - i, m)],
             1, Len(digits)) % m

\* The number a little-endian byte string holds, modulo m.
BytesMod(bytes, m) ==
    SumRange([k \in 1..Len(bytes) |-> bytes[k] * PowMod(256, k - 1, m)],
             1, Len(bytes)) % m

\* The bit width in the primitive's name.
Bits(prim) ==
    CASE prim \in {"U8", "I8"} -> 8
      [] prim \in {"U16", "I16"} -> 16
      [] prim \in {"U32", "I32"} -> 32
      [] prim \in {"U64", "I64"} -> 64
      [] prim \in {"U128", "I128"} -> 128

\* 2^bits in decimal.
TwoTo(bits) ==
    CASE bits = 7 -> <<"1", "2", "8">>
      [] bits = 8 -> <<"2", "5", "6">>
      [] bits = 15 -> <<"3", "2", "7", "6", "8">>
      [] bits = 16 -> <<"6", "5", "5", "3", "6">>
      [] bits = 31 -> <<"2", "1", "4", "7", "4", "8", "3", "6", "4", "8">>
      [] bits = 32 -> <<"4", "2", "9", "4", "9", "6", "7", "2", "9", "6">>
      [] bits = 63 -> <<"9", "2", "2", "3", "3", "7", "2", "0", "3", "6", "8", "5", "4", "7", "7", "5", "8", "0", "8">>
      [] bits = 64 -> <<"1", "8", "4", "4", "6", "7", "4", "4", "0", "7", "3", "7", "0", "9", "5", "5", "1", "6", "1", "6">>
      [] bits = 127 -> <<"1", "7", "0", "1", "4", "1", "1", "8", "3", "4", "6", "0", "4", "6", "9", "2", "3", "1", "7", "3", "1", "6", "8", "7", "3", "0", "3", "7", "1", "5", "8", "8", "4", "1", "0", "5", "7", "2", "8">>
      [] bits = 128 -> <<"3", "4", "0", "2", "8", "2", "3", "6", "6", "9", "2", "0", "9", "3", "8", "4", "6", "3", "4", "6", "3", "3", "7", "4", "6", "0", "7", "4", "3", "1", "7", "6", "8", "2", "1", "1", "4", "5", "6">>

HasSign(arg) == arg # <<>> /\ Head(arg) \in {"+", "-"}
IsNegative(arg) == arg # <<>> /\ Head(arg) = "-"
Body(arg) == IF HasSign(arg) THEN Tail(arg) ELSE arg

\* An optional sign, then one decimal digit or more.
IsDecimal(arg) ==
    /\ Body(arg) # <<>>
    /\ \A i \in 1..Len(Body(arg)) : \E d \in 1..10 : Digits[d] = Body(arg)[i]

\* A digit string without its leading zeros; empty for zero.
Stripped(digits) ==
    LET nz == {i \in 1..Len(digits) : digits[i] # "0"}
    IN  IF nz = {} THEN <<>>
        ELSE SubSeq(digits, CHOOSE i \in nz : \A j \in nz : i <= j, Len(digits))

\* a < b, for numbers written without leading zeros.
Less(a, b) ==
    \/ Len(a) < Len(b)
    \/ /\ Len(a) = Len(b)
       /\ \E i \in 1..Len(a) :
            /\ DigitVal(a[i]) < DigitVal(b[i])
            /\ \A j \in 1..(i - 1) : a[j] = b[j]

Magnitude(arg) == Stripped(Body(arg))

\* The text is a decimal integer of the type and inside its range: 0 to
\* 2^w - 1 with no minus sign for an unsigned type, -2^(w-1) to 2^(w-1) - 1
\* for a signed one.
Fits(prim, arg) ==
    /\ IsDecimal(arg)
    /\ IF prim \in Unsigned
       THEN ~IsNegative(arg) /\ Less(Magnitude(arg), TwoTo(Bits(prim)))
       ELSE IF IsNegative(arg)
            THEN ~Less(TwoTo(Bits(prim) - 1), Magnitude(arg))
            ELSE Less(Magnitude(arg), TwoTo(Bits(prim) - 1))

\* The bytes hold the text's value: the value itself, or 2^w minus the
\* magnitude for a negative one.
Holds(prim, arg, bytes) ==
    \A m \in Moduli :
        IF IsNegative(arg) /\ Magnitude(arg) # <<>>
        THEN (BytesMod(bytes, m) + ValueMod(Magnitude(arg), m)) % m
                 = PowMod(2, Bits(prim), m)
        ELSE BytesMod(bytes, m) = ValueMod(Magnitude(arg), m)

\* C18: a decimal text inside the range of an integer primitive of width w
\* encodes to w/8 bytes holding its value in little-endian, two's complement
\* for a negative one; any other text is refused with an error and nothing is
\* encoded, so no value is wrapped modulo 2^w. "true" encodes to the byte 1
\* and "false" to the byte 0.
C18_IntegerEncoding ==
    (call.op \in {"round_trip", "encode_arg"} /\ call.prim \in Unsigned \cup Signed \cup {"Bool"})
    => LET arg == call.args[1]
       IN  IF call.prim = "Bool"
           THEN /\ arg = <<"t", "r", "u", "e">>
                   => (call.op = "round_trip" /\ call.encoded = <<1>>)
                /\ arg = <<"f", "a", "l", "s", "e">>
                   => (call.op = "round_trip" /\ call.encoded = <<0>>)
           ELSE IF Fits(call.prim, arg)
                THEN /\ call.op = "round_trip"
                     /\ Len(call.encoded) = Bits(call.prim) \div 8
                     /\ \A k \in 1..Len(call.encoded) : call.encoded[k] \in 0..255
                     /\ Holds(call.prim, arg, call.encoded)
                ELSE /\ call.op = "encode_arg"
                     /\ call.result.kind = "err"

\* -2^63 encoded as an i64: seven zero bytes and 0x80.
C18_Witness ==
    /\ call.op = "round_trip"
    /\ call.prim = "I64"
    /\ call.args = <<<<"-", "9", "2", "2", "3", "3", "7", "2", "0", "3", "6", "8", "5", "4", "7", "7", "5", "8", "0", "8">>>>
    /\ call.encoded = <<0, 0, 0, 0, 0, 0, 0, 128>>

\* C19: decode_return for a declared message without a return type gives the
\* empty (unit) value and does not fail; for a message with a return type it
\* decodes the bytes as that type, giving a value or a decoding error.
C19_DecodeReturn ==
    (call.op = "decode_return" /\ Declared(metadata.messages, call.name) # 0)
    => IF metadata.messages[Declared(metadata.messages, call.name)].return_type.some
       THEN call.result.kind \in {"ok", "err"}
       ELSE call.result = OkText(<<>>)

\* The result of the task's call made alone on the descriptor.
Alone(md, t) ==
    CASE t.op = "encode_constructor" -> EncodeConstructor(md, t.name, t.args)
      [] t.op = "encode_message" -> EncodeMessage(md, t.name, t.args)
      [] t.op = "decode_return" -> DecodeReturn(md, t.name, t.data).result
      [] t.op = "decode_events" -> DecodeEvents(md, t.data)

\* C20: whatever calls the tasks make on the shared Codec and however their
\* steps interleave, no step changes the descriptor, and a call that has
\* returned has the result the same call gives when run alone.
C20_ConcurrentCalls ==
    /\ [][metadata' = metadata]_vars
    /\ [](\A id \in DOMAIN tasks :
            tasks[id].pc = "returned"
            => tasks[id].result = Alone(metadata, tasks[id]))

\* Task 1 has returned encoded bytes for one call while task 2 is in the
\* middle of another, holding its reference.
C20_Witness ==
    /\ tasks # <<>>
    /\ tasks[1].pc = "returned"
    /\ tasks[1].result.kind = "ok"
    /\ tasks[2].pc = "found"
    /\ tasks[2].found # 0
    /\ tasks[2].op # tasks[1].op

(***************************************************************************)
(* The claims about the other commands.                                    *)
(***************************************************************************)
\* C21: when the stored contract info has a deposit_account field, the
\* balances read are those of that account and storage_total_deposit is its
\* free balance; when it has none, they are those of the contract's own
\* account and storage_total_deposit is its reserved balance.  In both cases
\* trie_id (reported as the hexadecimal text of its bytes), code_hash,
\* storage_items and storage_items_deposit are those of the stored info.
C21_DepositAccount ==
    info.pc = "fetched"
    => /\ IF info.stored.deposit_account.some
          THEN /\ info.queried = <<info.stored.deposit_account.id>>
               /\ info.result.storage_total_deposit
                    = info.balances[info.stored.deposit_account.id].free
          ELSE /\ info.queried = <<info.contract>>
               /\ info.result.storage_total_deposit
                    = info.balances[info.contract].reserved
       /\ HexDecode(info.result.trie_id) = OkBytes(info.stored.trie_id)
       /\ info.result.code_hash = info.stored.code_hash
       /\ info.result.storage_items = info.stored.storage_items
       /\ info.result.storage_items_deposit = info.stored.storage_item_deposit

\* The info of contract 0 names account 7 as its deposit account: the total
\* deposit is the free balance of account 7.
C21_Witness ==
    /\ info.pc = "fetched"
    /\ info.contract = 0
    /\ info.stored.deposit_account = Some(7)
    /\ info.stored.trie_id = <<1, 171>>
    /\ info.balances[7] = AccountData(2, 20)
    /\ info.balances[0] = AccountData(1, 10)
    /\ info.result.storage_total_deposit = 2

\* The required fields the builder has not had set, in the order name,
\* version, authors.
Missing == SelectSeq(Required, LAMBDA f : ~contract_builder.fields[f].some)

\* C22: build() succeeds exactly when name, version and authors are all set,
\* and otherwise its error is "Missing required non-default fields: " and the
\* unset required fields in the order name, version, authors, separated by
\* ", "; a setter called on a field that is set panics, and no step changes a
\* field that is set.
C22_BuilderRequiredFields ==
    /\ [](contract_builder.last = "build"
          => IF Missing = <<>>
             THEN contract_builder.built.kind = "ok"
             ELSE /\ contract_builder.built.kind = "err"
                  /\ Len(contract_builder.built.message) = 2 * Len(Missing)
                  /\ contract_builder.built.message[1]
                       = "Missing required non-default fields: "
                  /\ \A i \in 1..Len(Missing) :
                        contract_builder.built.message[2 * i] = Missing[i]
                  /\ \A i \in 1..(Len(Missing) - 1) :
                        contract_builder.built.message[2 * i + 1] = ", ")
    /\ [][/\ \A f \in BuilderFields :
                contract_builder.fields[f].some
                => contract_builder'.fields[f] = contract_builder.fields[f]
          /\ \A f \in BuilderFields :
                (contract_builder'.last = f /\ contract_builder.fields[f].some)
                => contract_builder'.pc = "panicked"]_vars

\* With the version alone set, build() names name and authors.
C22_Witness ==
    /\ contract_builder.last = "build"
    /\ contract_builder.fields["version"].some
    /\ contract_builder.built.message
         = <<"Missing required non-default fields: ", "name", ", ", "authors">>

Hyphenated(name) == \E i \in 1..Len(name) : name[i] = "-"

\* C23: a call of execute_new leaves every file that existed as it was.  A
\* name with a hyphen is refused and the tree is untouched; when the
\* directory of the name holds a Cargo.toml the call fails with "A Cargo
\* package already exists in <name>"; when another file of the template
\* exists there it fails with "New contract file <path> already exists" for
\* a path that existed, which keeps its content; and a call with a name that
\* execute_new was called with before fails.
C23_NewKeepsExistingFiles ==
    [][(files.pc = "idle" /\ files'.pc = "returned")
       => LET name == files'.name
              before == files.fs
              after == files'.fs
              result == files'.result
          IN  /\ \A n \in ProjectNames, f \in TemplateFiles :
                    before[n].file[f] # Absent => after[n].file[f] = before[n].file[f]
              /\ Hyphenated(name)
                 => /\ after = before
                    /\ result = NewResult("err", "Contract names cannot contain hyphens", "")
              /\ (~Hyphenated(name) /\ before[name].file["Cargo.toml"] # Absent)
                 => /\ after = before
                    /\ result = NewResult("err", "A Cargo package already exists in", "")
              /\ (/\ ~Hyphenated(name)
                  /\ before[name].file["Cargo.toml"] = Absent
                  /\ \E f \in TemplateFiles : before[name].file[f] # Absent)
                 => /\ result.kind = "err"
                    /\ result.msg = "New contract file already exists"
                    /\ result.path \in TemplateFiles
                    /\ before[name].file[result.path] # Absent
                    /\ after[name].file[result.path] = before[name].file[result.path]
              /\ name \in files.called => result.kind = "err"]_vars

\* A second call with the name of a call that created the contract.
C23_Witness ==
    /\ files.pc = "returned"
    /\ files.name = flip
    /\ flip \in files.called
    /\ files.fs[flip].file["lib.rs"] = Rendered("lib.rs", flip)
    /\ files.result = NewResult("err", "A Cargo package already exists in", "")


(***************************************************************************)
(* The claims about the environment check's loop and comparison (SpecEnv). *)
(***************************************************************************)
\* The first field of the chain's Environment, in declaration order, that
\* chain and contract declare differently; the hasher is no such field.
FirstDiffering ==
    LET at == {j \in 1..Len(envIn.node) : envIn.node[j].name.text \in Differing}
    IN  envIn.node[CHOOSE j \in at : \A k \in at : j <= k].name.text

\* C24: the check returns Ok only if each of the five fields matches, and
\* when fields mismatch it fails with the error naming the first mismatching
\* field in the chain's declaration order.
C24_FirstMismatchReported ==
    envOut.kind # "none"
    => /\ envOut = EnvOk <=> Differing = {}
       /\ Differing # {} => envOut = CheckFailed(FirstDiffering)


\* The structure of a resolved type: its variant, its primitive or length
\* and the structure of its element, no type id in it.
RECURSIVE Structure(_, _, _)
Structure(registry, def, depth) ==
    IF def.kind \in {"Array", "Sequence"} /\ depth > 0
    THEN [kind |-> def.kind, prim |-> "", len |-> def.len,
          elem |-> <<Structure(registry, Resolve(registry, def.param).def, depth - 1)>>]
    ELSE [kind |-> def.kind, prim |-> def.prim, len |-> 0, elem |-> <<>>]

StructureOf(registry, id) ==
    Structure(registry, Resolve(registry, id).def, StackDepth(registry))

\* The fields whose resolved types have the same structure in both registries.
SameStructure ==
    {n \in EnvironmentNames :
        LET i == CHOOSE j \in 1..Len(envIn.node) : envIn.node[j].name.text = n
        IN  StructureOf(NodeRegistry(envIn.node), envIn.node[i].ty)
            = StructureOf(ContractTypes, envIn.contract[n])}

\* The contract's type ids renumbered: 0 and 3 change places, in the ids of
\* the registry and in every id a type or the environment holds.
Renumber(id) == IF id = 0 THEN 3 ELSE IF id = 3 THEN 0 ELSE id

RenumberedType(tt) ==
    PortableType(tt.path,
                 [k \in DOMAIN tt.type_params |->
                    [tt.type_params[k] EXCEPT !.id = Renumber(@)]],
                 [tt.type_def EXCEPT
                    !.param = IF tt.type_def.kind \in {"Array", "Sequence"}
                              THEN Renumber(@) ELSE @,
                    !.fields = [k \in DOMAIN @ |-> [@[k] EXCEPT !.ty = Renumber(@)]]])

Renumbered(contract) ==
    [environment |-> [n \in EnvironmentNames |-> Renumber(contract.environment[n])],
     registry |-> [id \in DOMAIN contract.registry |->
                      RenumberedType(contract.registry[Renumber(id)])]]

\* C25: fields whose resolved types have the same structure compare as equal
\* whatever ids the two registries give the component types, so that the
\* check returns Ok when the five fields have the same structure, and the
\* result is the same after the contract's registry is renumbered.
C25_StructureNotIds ==
    envOut.kind # "none"
    => /\ SameStructure = EnvironmentNames => envOut = EnvOk
       /\ envOut = CompareNodeEnvWithContract(NodeRegistry(envIn.node),
                                              Renumbered(Contract(envIn.contract)))


(***************************************************************************)
(* The claim about the length of an encoded array (SpecArgs).              *)
(***************************************************************************)
\* C26: a successful encode of an argument that is a fixed array of n u8
\* contributes exactly n bytes to the call data, after the selector.
C26_ArrayLength ==
    (/\ call.op = "encode_message"
     /\ ArgType.kind = "Array"
     /\ TypeRegistry[ArgType.param] = Primitive("U8")
     /\ call.result.kind = "ok")
    => Len(call.result.bytes) = Len(GetSelector) + ArgType.len


(***************************************************************************)
(* The claims about CallExec::call and estimate_gas (SpecCall).            *)
(***************************************************************************)
\* What call_dry_run and estimate_gas leave as the outcome.
OtherOutcomes ==
    {"dry_run_ok", "dry_run_reverted", "dry_run_rpc_error", "dry_run_err",
     "estimated", "not_estimated"}

\* The step sends an extrinsic to the node.
Submits ==
    /\ Len(cmd'.sent) > Len(cmd.sent)
    /\ cmd'.sent[Len(cmd'.sent)] = "submit_extrinsic"

\* C27: call on a message that does not mutate returns the error about the
\* immutable message and sends nothing to the node, neither a dry-run nor
\* an extrinsic; an extrinsic is submitted only for a mutating message and
\* with a gas limit, the caller's or the one a successful dry-run gave.
C27_ImmutableNotCalled ==
    /\ [][(cmd.pc = "exec" /\ ~Mutates(cmd) /\ cmd' # cmd
           /\ cmd'.outcome \notin OtherOutcomes)
          => (cmd'.outcome = "immutable" /\ cmd'.sent = cmd.sent)]_vars
    /\ [][Submits
          => /\ Mutates(cmd)
             /\ cmd'.weight.some
             /\ \/ cmd'.sent = cmd.sent \o <<"submit_extrinsic">>
                \/ /\ cmd'.sent = cmd.sent \o <<"state_call", "submit_extrinsic">>
                   /\ cmd'.call_result.status = "ok"]_vars

\* A call on a message that does not mutate was refused, nothing was sent.
C27_Witness ==
    /\ cmd.pc = "exec"
    /\ ~Mutates(cmd)
    /\ cmd.outcome = "immutable"
    /\ cmd.sent = <<>>

\* The user's value of a component of the weight, or else the dry-run's.
Component(given, required) == IF given.some THEN given.id ELSE required

\* C28: estimate_gas returns the user's gas limit and proof size without a
\* dry-run when both are given; otherwise it makes one dry-run, at most one
\* call reaching the node, and returns for each component the user's value
\* or else that of the dry-run's gas_required if the dry-run succeeded, and
\* an error and no weight if it failed.
C28_EstimateGas ==
    [][(cmd.pc = "exec" /\ cmd'.outcome \in {"estimated", "not_estimated"}
        /\ cmd' # cmd)
       => IF cmd.gas_limit.some /\ cmd.proof_size.some
          THEN /\ cmd'.sent = cmd.sent
               /\ cmd'.outcome = "estimated"
               /\ cmd'.weight = SomeWeight(Weight(cmd.gas_limit.id, cmd.proof_size.id))
          ELSE IF cmd'.sent = cmd.sent \o <<"state_call">>
                  /\ cmd'.call_result.status = "ok"
               THEN /\ cmd'.outcome = "estimated"
                    /\ cmd'.weight = SomeWeight(Weight(
                          Component(cmd.gas_limit, cmd'.call_result.required.ref_time),
                          Component(cmd.proof_size, cmd'.call_result.required.proof_size)))
               ELSE /\ cmd'.outcome = "not_estimated"
                    /\ cmd'.weight = NoWeight
                    /\ \/ cmd'.sent = cmd.sent \o <<"state_call">>
                       \/ cmd'.sent = cmd.sent /\ ~cmd.balances_ok]_vars

\* A gas limit given and no proof size: the estimate has the user's gas limit
\* and the proof size the one dry-run required.
C28_Witness ==
    /\ cmd.outcome = "estimated"
    /\ cmd.gas_limit.some /\ ~cmd.proof_size.some
    /\ cmd.sent = <<"state_call">>
    /\ cmd.call_result.status = "ok"
    /\ cmd.weight = SomeWeight(Weight(cmd.gas_limit.id, cmd.call_result.required.proof_size))


(***************************************************************************)
(* The claim about the upload command (SpecUpload).                        *)
(***************************************************************************)
AlreadyUploaded == "This contract has already been uploaded with code hash"

Submitted == \E k \in 1..Len(upload.sent) : upload.sent[k] = "upload_code"

C30_ParamsArray ==
    (/\ rpc.pc = "returned"
     /\ rpc.result.msg # "connection failed"
     /\ \A i \in 1..Len(rpc.params) : ParseValue(rpc.params[i]).kind # "invalid")
    => /\ rpc.executed
       /\ IF rpc.params = <<>> THEN ~rpc.passed.some
          ELSE /\ rpc.passed.some
               /\ IsJsonArray(rpc.passed.raw)
               /\ JsonElements(rpc.passed.raw)
                  = [i \in 1..Len(rpc.params) |-> ToJson(ParseValue(rpc.params[i]))]

=============================================================================
